---- MODULE Spec2Model ----
(***************************************************************************)
(* Reconciliation pipeline of script_validacao_nfe.py (main, steps 1..7): *)
(* spreadsheet rows -> TransacaoOriginal -> GrupoNFe per invoice number   *)
(* -> Resultado in one of five buckets -> divergence-group ids -> Resumo. *)
(*                                                                         *)
(* Money is a Decimal with two fractional digits; it is held here as an    *)
(* integer number of centavos.  Dates are held as proleptic ordinals       *)
(* (date.toordinal()).  An invoice number is a Python str of digits; it is *)
(* held as the sequence of its digits so that str comparison is the        *)
(* lexicographic one.  Optional[X] is a sequence of length 0 (None) or 1.  *)
(* A tax id is the sequence of its characters.  The free-text fields       *)
(* motivo and texto_original and the fields of NFe other than numero and   *)
(* valor take no part in grouping, classification or the totals and are    *)
(* left out of the records.                                                *)
(***************************************************************************)
EXTENDS Integers, Sequences, FiniteSets, TLC

VARIABLES pc, planilha, nfes, transacoes, valor_total_boleto, grupos,
          resultados, grupos_numerados, cancelamento, estorno, resumo,
          texto, extraido, celula, convertido

vars == <<pc, planilha, nfes, transacoes, valor_total_boleto, grupos,
          resultados, grupos_numerados, cancelamento, estorno, resumo,
          texto, extraido, celula, convertido>>

\* texto and extraido are the argument and the returned tuple of a call of
\* extrair_numeros_nfe made on its own; the pipeline leaves them alone.
\* celula and convertido are the argument and the returned Decimal of a call
\* of converter_valor made on its own, both in thousandths of the unit.

(***************************** bounds **************************************)
\* Longest spreadsheet (data rows) drawn as input.
MaxTrans == 2
\* Longest NFe cell text drawn as input, in fragments.
MaxFragmentos == 4
\* Largest magnitude of a float or Decimal cell drawn as input, in thousandths.
MaxMilesimos == 25
\* Longest invoice list drawn when invoice numbers may repeat.
MaxNFes == 2
(************************** class Config ***********************************)
PERIODO_MAXIMO_DIAS == 60
\* Decimal("1.01"), in centavos
TOLERANCIA_VALOR == 101
\* date(2025, 9, 30).toordinal()
DATA_FECHAMENTO == 739524

\* grupo_divergencia_id: Optional[int] = None
SemGrupoId == 0

TiposResultado ==
    {"IDENTICA", "DIVERGENTE", "DIVERGENTE_AGRUPADA", "NAO_ENCONTRADA", "DESCONSIDERADA"}

(************************** input universe *********************************)
\* Invoice numbers "10", "2", "9": str order is "10" < "2" < "9", numeric
\* order is 2 < 9 < 10.
Numeros == {<<1, 0>>, <<2>>, <<9>>}
\* Invoice totals (vNF), in centavos.
ValoresNFe == {10000}
\* Billed value (centavos) and purchase date of the rows that name invoices:
\* 1.01 and 1.02 above the invoice total, 60 and 61 days before closing.
ValoresEDatas ==
    {<<10101, DATA_FECHAMENTO - 60>>, <<10102, DATA_FECHAMENTO - 60>>,
     <<10101, DATA_FECHAMENTO - 61>>}

(****************************** helpers ************************************)
\* All sequences over S of length 0..n.
SeqAte(S, n) == UNION {[1..k -> S] : k \in 0..n}

\* Python str "<" on digit strings: lexicographic by code point.
RECURSIVE StrMenor(_, _)
StrMenor(a, b) ==
    IF a = <<>> THEN b # <<>>
    ELSE IF b = <<>> THEN FALSE
    ELSE IF Head(a) # Head(b) THEN Head(a) < Head(b)
    ELSE StrMenor(Tail(a), Tail(b))

\* sorted(set of str): ascending by str comparison.
RECURSIVE sorted(_)
sorted(S) ==
    IF S = {} THEN <<>>
    ELSE LET m == CHOOSE x \in S : \A y \in S \ {x} : StrMenor(x, y)
         IN <<m>> \o sorted(S \ {m})

\* The orders in which "for numero in trans.numeros_nfe" may visit a set:
\* set iteration order of str is unspecified (hash randomisation).
Enumeracoes(S) ==
    {s \in [1..Cardinality(S) -> S] : \A i, j \in DOMAIN s : i # j => s[i] # s[j]}

\* sum(t.valor_boleto for t in lista); sum of no element is 0.
RECURSIVE SomaBoleto(_)
SomaBoleto(lista) ==
    IF lista = <<>> THEN 0 ELSE Head(lista).valor_boleto + SomaBoleto(Tail(lista))

Abs(x) == IF x < 0 THEN -x ELSE x

Max(a, b) == IF a >= b THEN a ELSE b

\* Decimal("NaN"): Decimal(valor_nfe.text) accepts the text "NaN" of a vNF
\* element.  It is held as a reserved integer below every amount drawn.
DecimalNaN == -1000000000

EhNaN(x) == x = DecimalNaN

\* a + b, a - b and abs(a) on Decimal: a quiet NaN propagates without raising.
DecimalMais(a, b) == IF EhNaN(a) \/ EhNaN(b) THEN DecimalNaN ELSE a + b

DecimalMenos(a, b) == IF EhNaN(a) \/ EhNaN(b) THEN DecimalNaN ELSE a - b

DecimalAbs(a) == IF EhNaN(a) THEN DecimalNaN ELSE Abs(a)

(************************** extrair_numeros_nfe ****************************)
\* A str is the sequence of its characters; a character is a one-character
\* string.
Espacos == {" "}

Digitos == {"0", "1", "2", "3", "4", "5", "6", "7", "8", "9"}

\* str.lower() on one character (the letters that occur in the texts drawn).
lower_char(c) ==
    CASE c = "A" -> "a" [] c = "C" -> "c" [] c = "E" -> "e" [] c = "F" -> "f"
      [] c = "M" -> "m" [] c = "N" -> "n" [] c = "O" -> "o" [] c = "T" -> "t"
      [] OTHER -> c

lower(s) == [k \in 1..Len(s) |-> lower_char(s[k])]

\* str.strip(): leading and trailing whitespace removed.
RECURSIVE lstrip(_)
lstrip(s) == IF s # <<>> /\ Head(s) \in Espacos THEN lstrip(Tail(s)) ELSE s

RECURSIVE rstrip(_)
rstrip(s) ==
    IF s # <<>> /\ s[Len(s)] \in Espacos THEN rstrip(SubSeq(s, 1, Len(s) - 1)) ELSE s

strip(s) == rstrip(lstrip(s))

\* palavra in s
Contem(s, palavra) ==
    \E i \in 1..(Len(s) - Len(palavra) + 1) :
        SubSeq(s, i, i + Len(palavra) - 1) = palavra

\* s.split(','): the segments between commas, empty ones included.
RECURSIVE split(_)
split(s) ==
    IF \A k \in 1..Len(s) : s[k] # "," THEN <<s>>
    ELSE LET i == CHOOSE k \in 1..Len(s) : s[k] = "," /\ \A j \in 1..(k - 1) : s[j] # ","
         IN <<SubSeq(s, 1, i - 1)>> \o split(SubSeq(s, i + 1, Len(s)))

\* An invoice number is kept in the records as the sequence of its digits.
DigitoDe(c) ==
    CASE c = "0" -> 0 [] c = "1" -> 1 [] c = "2" -> 2 [] c = "3" -> 3 [] c = "4" -> 4
      [] c = "5" -> 5 [] c = "6" -> 6 [] c = "7" -> 7 [] c = "8" -> 8 [] c = "9" -> 9

NumeroDe(s) == [k \in 1..Len(s) |-> DigitoDe(s[k])]

PalavraCancelado == <<"c", "a", "n", "c", "e", "l", "a", "d", "o">>

PalavraCancelamento == <<"c", "a", "n", "c", "e", "l", "a", "m", "e", "n", "t", "o">>

PalavraEstorno == <<"e", "s", "t", "o", "r", "n", "o">>

\* Mutation: the keywords are looked for in the text as written.
lower_sem_efeito(s) == s

\* texto_lower = texto_str.lower()
texto_lower_de(s) == lower(s)

\* re.sub(r'[^\d,]', '', texto_str)
Limpar(s) == SelectSeq(s, LAMBDA c : c \in Digitos \/ c = ",")

extrair_numeros_nfe(t) ==
    IF t = <<>>
    THEN [numeros |-> {}, eh_cancelamento |-> FALSE, eh_estorno |-> FALSE]
    ELSE LET texto_str       == strip(t)
             texto_lower     == texto_lower_de(texto_str)
             eh_cancelamento == \/ Contem(texto_lower, PalavraCancelado)
                                \/ Contem(texto_lower, PalavraCancelamento)
             eh_estorno      == Contem(texto_lower, PalavraEstorno)
         IN IF eh_cancelamento \/ eh_estorno
            THEN [numeros |-> {}, eh_cancelamento |-> eh_cancelamento,
                  eh_estorno |-> eh_estorno]
            ELSE LET numeros == split(Limpar(texto_str))
                 IN [numeros |-> {NumeroDe(strip(numeros[k])) :
                                     k \in {j \in 1..Len(numeros) : strip(numeros[j]) # <<>>}},
                     eh_cancelamento |-> FALSE,
                     eh_estorno |-> FALSE]

\* The tuple before any call.
SemExtracao == [numeros |-> {}, eh_cancelamento |-> FALSE, eh_estorno |-> FALSE]

(***************************** converter_valor *****************************)
\* A cell value handed to converter_valor: None, or an int, a float or a
\* Decimal of the given number of thousandths.  (The str branch is not
\* modelled.)
SemCelula == [tipo |-> "None", milesimos |-> 0]

\* Decimal.quantize(Decimal('0.01'), rounding=ROUND_HALF_UP): to the nearest
\* hundredth, a tie going away from zero.
quantize(milesimos) ==
    LET q == (Abs(milesimos) + 5) \div 10
    IN IF milesimos < 0 THEN -(q * 10) ELSE q * 10

\* Lines 170..177: None gives 0, a Decimal is returned as it is, an int or
\* a float goes through Decimal(str(valor)).quantize(...).
converter_valor(valor) ==
    IF valor.tipo = "None" THEN 0
    ELSE IF valor.tipo = "Decimal" THEN valor.milesimos
    ELSE quantize(valor.milesimos)

(************************ TransacaoOriginal ********************************)
eh_agrupamento(trans) == Cardinality(trans.numeros_nfe) > 1

(************************ carregar_transacoes_da_planilha ******************)
\* Config.CNPJ_EMPRESA
CNPJ_EMPRESA == <<"1", "7", "1", "2", "2", "4", "7", "1", "0", "0", "0", "1", "7", "5">>

\* re.sub(r'\D', '', s)
SoDigitos(s) == SelectSeq(s, LAMBDA c : c \in Digitos)

\* TransacaoOriginal.cnpj_posto of the transaction built from a row: the
\* cell (None is <<>>) as str, or "" when it is empty, digits only.
cnpj_posto_de(row) ==
    SoDigitos(IF row.cnpj_posto # <<>> /\ row.cnpj_posto[1] # <<>>
              THEN row.cnpj_posto[1] ELSE <<>>)

\* TransacaoOriginal.cnpj_empresa: the cell, or Config.CNPJ_EMPRESA when it
\* is empty, digits only.
cnpj_empresa_de(row) ==
    SoDigitos(IF row.cnpj_empresa # <<>> /\ row.cnpj_empresa[1] # <<>>
              THEN row.cnpj_empresa[1] ELSE CNPJ_EMPRESA)

\* TransacaoOriginal.postergado: the cell as str, or "Nao" when it is
\* empty (written here without the tilde).
postergado_de(row) == IF row.postergado # <<>> THEN row.postergado[1] ELSE "Nao"

\* A spreadsheet row as read by lines 372..391: the NFe cell already run
\* through extrair_numeros_nfe (numeros, cancelamento, estorno), the date
\* cell through converter_data (<<>> when it does not parse) and the value
\* cell through converter_valor; the tax id and deferral cells are as read.
\* Rows are numbered from 2.
RECURSIVE CarregarLinhas(_, _)
CarregarLinhas(linhas, linha) ==
    IF linhas = <<>> THEN [transacoes |-> <<>>, total |-> 0]
    ELSE LET row   == Head(linhas)
             resto == CarregarLinhas(Tail(linhas), linha + 1)
         IN IF row.data = <<>>
            THEN resto
            ELSE [transacoes |->
                     <<[numeros_nfe        |-> row.numeros,
                        data_abastecimento |-> row.data[1],
                        valor_boleto       |-> row.valor,
                        cnpj_posto         |-> cnpj_posto_de(row),
                        cnpj_empresa       |-> cnpj_empresa_de(row),
                        postergado         |-> postergado_de(row),
                        linha              |-> linha,
                        eh_cancelamento    |-> row.cancelamento,
                        eh_estorno         |-> row.estorno]>> \o resto.transacoes,
                  total |-> row.valor + resto.total]

PrimeiraLinha == 2

(**************************** criar_grupos_nfe *****************************)
\* Mutation: only the first number of a transaction is entered in the index.
VisitasDeSoPrimeiro(trans, ordem) ==
    IF trans.eh_cancelamento \/ trans.eh_estorno \/ ordem = <<>> THEN <<>>
    ELSE <<[numero |-> ordem[1], trans |-> trans]>>

\* Lines 442..451 for one transaction: its numbers in the order the set
\* yields them, each paired with the transaction.
VisitasDe(trans, ordem) ==
    IF trans.eh_cancelamento \/ trans.eh_estorno THEN <<>>
    ELSE [k \in 1..Len(ordem) |-> [numero |-> ordem[k], trans |-> trans]]

RECURSIVE Visitas(_, _)
Visitas(lista, ordens) ==
    IF lista = <<>> THEN <<>>
    ELSE VisitasDe(Head(lista), Head(ordens)) \o Visitas(Tail(lista), Tail(ordens))

\* indice = defaultdict(...): keys in insertion order, two lists per key.
IndiceVazio ==
    [chaves |-> <<>>,
     individuais |-> [n \in Numeros |-> <<>>],
     agrupadas   |-> [n \in Numeros |-> <<>>]]

TemChave(indice, numero) == \E k \in 1..Len(indice.chaves) : indice.chaves[k] = numero

\* Mutation: every transaction is filed under 'individuais'.
IndiceAppendIndividual(indice, v) ==
    LET chaves == IF TemChave(indice, v.numero) THEN indice.chaves
                  ELSE Append(indice.chaves, v.numero)
    IN [indice EXCEPT !.chaves = chaves,
                      !.individuais[v.numero] = Append(@, v.trans)]

\* indice[numero]['agrupadas' | 'individuais'].append(trans)
IndiceAppend(indice, v) ==
    LET chaves == IF TemChave(indice, v.numero) THEN indice.chaves
                  ELSE Append(indice.chaves, v.numero)
    IN IF eh_agrupamento(v.trans)
       THEN [indice EXCEPT !.chaves = chaves,
                           !.agrupadas[v.numero] = Append(@, v.trans)]
       ELSE [indice EXCEPT !.chaves = chaves,
                           !.individuais[v.numero] = Append(@, v.trans)]

RECURSIVE SepararTransacoes(_, _)
SepararTransacoes(indice, visitas) ==
    IF visitas = <<>> THEN indice
    ELSE SepararTransacoes(IndiceAppend(indice, Head(visitas)), Tail(visitas))

\* int(numero) of a digit string.
RECURSIVE ValorNumerico(_)
ValorNumerico(a) ==
    IF a = <<>> THEN 0 ELSE 10 * ValorNumerico(SubSeq(a, 1, Len(a) - 1)) + a[Len(a)]

\* Mutation: the anchor is the numerically smallest number (sorted by int).
EhPrimeiroNumeroNumerico(numero, agrupadas) ==
    \A m \in agrupadas[1].numeros_nfe : ValorNumerico(numero) <= ValorNumerico(m)

\* numero == numeros_na_ordem[0], numeros_na_ordem = sorted(agrupadas[0].numeros_nfe)
EhPrimeiroNumero(numero, agrupadas) ==
    numero = sorted(agrupadas[1].numeros_nfe)[1]

\* Mutation: combined contributors are summed together with the individual ones.
ParcelasComAgrupadas(numero, individuais, agrupadas) ==
    IF Len(individuais) > 0 THEN individuais \o agrupadas
    ELSE IF EhPrimeiroNumero(numero, agrupadas) THEN agrupadas
    ELSE <<>>

\* The transactions whose valor_boleto is summed into valor_planilha
\* (the iterables of the two sum(...) calls; none in the "valor = 0" branch).
Parcelas(numero, individuais, agrupadas) ==
    IF Len(individuais) > 0 THEN individuais
    ELSE IF EhPrimeiroNumero(numero, agrupadas) THEN agrupadas
    ELSE <<>>

\* Mutation: the descriptive fields come from the first combined
\* contributor whenever there is one.
CriarGrupoPrimeiraAgrupada(numero, individuais, agrupadas) ==
    LET primeira == IF agrupadas # <<>> THEN agrupadas[1] ELSE individuais[1]
        fonte    == IF Len(individuais) > 0 THEN individuais ELSE agrupadas
    IN [numero_nfe             |-> numero,
        data_abastecimento     |-> primeira.data_abastecimento,
        cnpj_posto             |-> primeira.cnpj_posto,
        cnpj_empresa           |-> primeira.cnpj_empresa,
        valor_planilha         |-> SomaBoleto(Parcelas(numero, individuais, agrupadas)),
        postergado             |-> primeira.postergado,
        transacoes_individuais |-> individuais,
        transacoes_agrupadas   |-> agrupadas,
        linhas                 |-> [k \in 1..Len(fonte) |-> fonte[k].linha]]

\* Lines 460..498 for one key that has a contributor.
CriarGrupo(numero, individuais, agrupadas) ==
    LET primeira == IF individuais # <<>> THEN individuais[1] ELSE agrupadas[1]
        fonte    == IF Len(individuais) > 0 THEN individuais ELSE agrupadas
    IN [numero_nfe             |-> numero,
        data_abastecimento     |-> primeira.data_abastecimento,
        cnpj_posto             |-> primeira.cnpj_posto,
        cnpj_empresa           |-> primeira.cnpj_empresa,
        valor_planilha         |-> SomaBoleto(Parcelas(numero, individuais, agrupadas)),
        postergado             |-> primeira.postergado,
        transacoes_individuais |-> individuais,
        transacoes_agrupadas   |-> agrupadas,
        linhas                 |-> [k \in 1..Len(fonte) |-> fonte[k].linha]]

\* Mutation: the anchor of a combined row is the first of its numbers in the
\* index (insertion order, i.e. set iteration order) instead of sorted()[0].
RECURSIVE CriarGruposPrimeiroVisitado(_, _)
CriarGruposPrimeiroVisitado(indice, chaves) ==
    IF chaves = <<>> THEN <<>>
    ELSE LET numero == Head(chaves)
             ind    == indice.individuais[numero]
             agr    == indice.agrupadas[numero]
             pos(n) == CHOOSE k \in 1..Len(indice.chaves) : indice.chaves[k] = n
             ancora == \A m \in agr[1].numeros_nfe : pos(numero) <= pos(m)
             g      == CriarGrupo(numero, ind, agr)
         IN (IF Len(ind) > 0 THEN <<g>>
             ELSE IF Len(agr) > 0
             THEN <<[g EXCEPT !.valor_planilha = IF ancora THEN SomaBoleto(agr) ELSE 0]>>
             ELSE <<>>)
            \o CriarGruposPrimeiroVisitado(indice, Tail(chaves))

\* for numero, dados in indice.items(): one group per key, in key order;
\* a key with no contributor is skipped ("else: continue").
RECURSIVE CriarGrupos(_, _)
CriarGrupos(indice, chaves) ==
    IF chaves = <<>> THEN <<>>
    ELSE LET numero == Head(chaves)
             ind    == indice.individuais[numero]
             agr    == indice.agrupadas[numero]
         IN (IF Len(ind) > 0 \/ Len(agr) > 0
             THEN <<CriarGrupo(numero, ind, agr)>> ELSE <<>>)
            \o CriarGrupos(indice, Tail(chaves))

\* The dict returned by criar_grupos_nfe, as the sequence of its values in
\* insertion order; ordens[i] is the order in which the i-th transaction's
\* set of numbers is iterated.
criar_grupos_nfe(lista, ordens) ==
    LET indice == SepararTransacoes(IndiceVazio, Visitas(lista, ordens))
    IN CriarGrupos(indice, indice.chaves)

\* Every way the set iterations of one call can go: one order per transaction.
RECURSIVE Ordens(_)
Ordens(lista) ==
    IF lista = <<>> THEN {<<>>}
    ELSE {<<e>> \o r : e \in Enumeracoes(Head(lista).numeros_nfe), r \in Ordens(Tail(lista))}

tem_individual(grupo) == Len(grupo.transacoes_individuais) > 0

tem_agrupado(grupo) == Len(grupo.transacoes_agrupadas) > 0

\* Mutation: a group with combined contributors counts as combined-only,
\* whether or not it also has individual ones.
tipo_origem_agrupado_primeiro(grupo) ==
    IF tem_agrupado(grupo) THEN "AGRUPADO"
    ELSE IF tem_individual(grupo) THEN "INDIVIDUAL"
    ELSE "NENHUM"

tipo_origem(grupo) ==
    IF tem_individual(grupo) /\ tem_agrupado(grupo) THEN "AMBOS"
    ELSE IF tem_individual(grupo) THEN "INDIVIDUAL"
    ELSE IF tem_agrupado(grupo) THEN "AGRUPADO"
    ELSE "NENHUM"

(**************************** confrontar_grupo *****************************)
\* Mutation: the distance between the two dates, whichever comes first.
calcular_dias_postergados_distancia(data_abastecimento, data_fechamento) ==
    Abs(data_fechamento - data_abastecimento)

calcular_dias_postergados(data_abastecimento, data_fechamento) ==
    Max(0, data_fechamento - data_abastecimento)

\* nfes_index = {nfe.numero: nfe for nfe in nfes}; .get(numero) is None (<<>>)
\* or the last invoice of the list with that number.
\* Mutation: the first invoice of the list with that number is kept.
RECURSIVE IndiceGetPrimeiro(_, _)
IndiceGetPrimeiro(lista, numero) ==
    IF lista = <<>> THEN <<>>
    ELSE IF Head(lista).numero = numero THEN <<Head(lista)>>
    ELSE IndiceGetPrimeiro(Tail(lista), numero)

RECURSIVE IndiceGet(_, _)
IndiceGet(lista, numero) ==
    IF lista = <<>> THEN <<>>
    ELSE IF lista[Len(lista)].numero = numero THEN <<lista[Len(lista)]>>
    ELSE IndiceGet(SubSeq(lista, 1, Len(lista) - 1), numero)

\* Mutation: strict comparison with the tolerance.
DentroToleranciaEstrita(diferenca) == diferenca < TOLERANCIA_VALOR

\* diferenca <= config.TOLERANCIA_VALOR
DentroTolerancia(diferenca) == diferenca <= TOLERANCIA_VALOR

\* Mutation: the last day of the period is already out of it.
ForaDoPrazoNoLimite(dias) == dias >= PERIODO_MAXIMO_DIAS

\* dias > config.PERIODO_MAXIMO_DIAS
ForaDoPrazo(dias) == dias > PERIODO_MAXIMO_DIAS

\* ValorMonetario.dentro_tolerancia(outro, tolerancia), values in centavos
dentro_tolerancia(valor, outro, tolerancia) == Abs(valor - outro) <= tolerancia

\* Configuracao.esta_dentro_prazo, for a configuration with the script's
\* closing date and period
esta_dentro_prazo(data_abastecimento) ==
    calcular_dias_postergados(data_abastecimento, DATA_FECHAMENTO) <= PERIODO_MAXIMO_DIAS

Resultado(tipo, grupo, nfe, diferenca, dias) ==
    [tipo |-> tipo, grupo |-> grupo, nfe |-> nfe, diferenca |-> diferenca,
     dias_postergados |-> dias, grupo_divergencia_id |-> SemGrupoId]

\* Mutation: the period is checked before the lookup result.
confrontar_grupo_prazo_primeiro(grupo, lista_nfes) ==
    LET nfe  == IndiceGet(lista_nfes, grupo.numero_nfe)
        dias == calcular_dias_postergados(grupo.data_abastecimento, DATA_FECHAMENTO)
        diferenca == IF nfe = <<>> THEN grupo.valor_planilha
                     ELSE Abs(grupo.valor_planilha - nfe[1].valor)
    IN IF ForaDoPrazo(dias)
       THEN Resultado("DESCONSIDERADA", grupo, nfe, diferenca, dias)
       ELSE IF nfe = <<>>
       THEN Resultado("NAO_ENCONTRADA", grupo, <<>>, grupo.valor_planilha, dias)
       ELSE IF DentroTolerancia(diferenca)
       THEN Resultado("IDENTICA", grupo, nfe, diferenca, dias)
       ELSE IF tipo_origem(grupo) = "AGRUPADO"
       THEN Resultado("DIVERGENTE_AGRUPADA", grupo, nfe, diferenca, dias)
       ELSE Resultado("DIVERGENTE", grupo, nfe, diferenca, dias)

\* Mutation: the value is compared before the period, so a stale group whose
\* value matches is IDENTICA.
confrontar_grupo_valor_primeiro(grupo, lista_nfes) ==
    LET nfe  == IndiceGet(lista_nfes, grupo.numero_nfe)
        dias == calcular_dias_postergados(grupo.data_abastecimento, DATA_FECHAMENTO)
    IN IF nfe = <<>>
       THEN Resultado("NAO_ENCONTRADA", grupo, <<>>, grupo.valor_planilha, dias)
       ELSE LET diferenca == Abs(grupo.valor_planilha - nfe[1].valor)
            IN IF DentroTolerancia(diferenca)
               THEN Resultado("IDENTICA", grupo, nfe, diferenca, dias)
               ELSE IF ForaDoPrazo(dias)
               THEN Resultado("DESCONSIDERADA", grupo, nfe, diferenca, dias)
               ELSE IF tipo_origem(grupo) = "AGRUPADO"
               THEN Resultado("DIVERGENTE_AGRUPADA", grupo, nfe, diferenca, dias)
               ELSE Resultado("DIVERGENTE", grupo, nfe, diferenca, dias)

\* confrontar_grupo raises: "diferenca <= config.TOLERANCIA_VALOR" is an
\* ordering comparison, which signals decimal.InvalidOperation on a NaN.
\* It is reached for a matched group within the period.
confrontar_grupo_levanta(grupo, lista_nfes) ==
    LET nfe  == IndiceGet(lista_nfes, grupo.numero_nfe)
        dias == calcular_dias_postergados(grupo.data_abastecimento, DATA_FECHAMENTO)
    IN /\ nfe # <<>>
       /\ ~ForaDoPrazo(dias)
       /\ EhNaN(DecimalAbs(DecimalMenos(grupo.valor_planilha, nfe[1].valor)))

\* The Resultado returned when confrontar_grupo does not raise.
confrontar_grupo(grupo, lista_nfes) ==
    LET nfe  == IndiceGet(lista_nfes, grupo.numero_nfe)
        dias == calcular_dias_postergados(grupo.data_abastecimento, DATA_FECHAMENTO)
    IN IF nfe = <<>>
       THEN Resultado("NAO_ENCONTRADA", grupo, <<>>, grupo.valor_planilha, dias)
       ELSE LET diferenca == DecimalAbs(DecimalMenos(grupo.valor_planilha, nfe[1].valor))
            IN IF ForaDoPrazo(dias)
               THEN Resultado("DESCONSIDERADA", grupo, nfe, diferenca, dias)
               ELSE IF DentroTolerancia(diferenca)
               THEN Resultado("IDENTICA", grupo, nfe, diferenca, dias)
               ELSE IF tipo_origem(grupo) = "AGRUPADO"
               THEN Resultado("DIVERGENTE_AGRUPADA", grupo, nfe, diferenca, dias)
               ELSE Resultado("DIVERGENTE", grupo, nfe, diferenca, dias)

(************************ processar_confrontamento *************************)
ResultadosVazios == [t \in TiposResultado |-> <<>>]

\* Mutation: a stale result is skipped instead of being put in its bucket.
IncluirSemDesconsiderada(res, resultado) ==
    IF resultado.tipo = "DESCONSIDERADA" THEN res
    ELSE [res EXCEPT ![resultado.tipo] = Append(@, resultado)]

\* resultados[resultado.tipo].append(resultado)
Incluir(res, resultado) == [res EXCEPT ![resultado.tipo] = Append(@, resultado)]

RECURSIVE ConfrontarTodos(_, _, _)
ConfrontarTodos(res, lista_grupos, lista_nfes) ==
    IF lista_grupos = <<>> THEN res
    ELSE ConfrontarTodos(Incluir(res, confrontar_grupo(Head(lista_grupos), lista_nfes)),
                         Tail(lista_grupos), lista_nfes)

\* The dict returned when no call of confrontar_grupo raises.
processar_confrontamento(lista_grupos, lista_nfes) ==
    ConfrontarTodos(ResultadosVazios, lista_grupos, lista_nfes)

\* The loop has no try/except: an exception raised by confrontar_grupo for
\* any group leaves processar_confrontamento, and main, at once.
processar_confrontamento_levanta(lista_grupos, lista_nfes) ==
    \E k \in 1..Len(lista_grupos) : confrontar_grupo_levanta(lista_grupos[k], lista_nfes)

(****************** detectar_grupos_divergentes_agrupadas ******************)
\* Mutation: results are keyed by their own invoice number.
ChavePorNumero(resultado) == resultado.grupo.numero_nfe

\* chave = primeira_trans.linha, primeira_trans = transacoes_agrupadas[0]
Chave(resultado) == resultado.grupo.transacoes_agrupadas[1].linha

\* Keys of "grupos" (a defaultdict) in order of first insertion.
RECURSIVE ChavesEmOrdem(_, _)
ChavesEmOrdem(lista, vistas) ==
    IF lista = <<>> THEN vistas
    ELSE LET r == Head(lista)
         IN IF ~tem_agrupado(r.grupo) THEN ChavesEmOrdem(Tail(lista), vistas)
            ELSE IF \E k \in 1..Len(vistas) : vistas[k] = Chave(r)
            THEN ChavesEmOrdem(Tail(lista), vistas)
            ELSE ChavesEmOrdem(Tail(lista), Append(vistas, Chave(r)))

\* Mutation: the row number of the key is used as the id.
GrupoIdLinha(chaves, chave) == chave

\* grupo_id of a key: 1 for the first key, then grupo_id += 1 per key.
GrupoIdDe(chaves, chave) == CHOOSE k \in 1..Len(chaves) : chaves[k] = chave

\* Mutation: the pass also stamps the deferred-day count with the id.
NumerarEDias(lista) ==
    LET chaves == ChavesEmOrdem(lista, <<>>)
    IN [k \in 1..Len(lista) |->
          IF tem_agrupado(lista[k].grupo)
          THEN [lista[k] EXCEPT !.grupo_divergencia_id = GrupoIdDe(chaves, Chave(lista[k])),
                                !.dias_postergados = GrupoIdDe(chaves, Chave(lista[k]))]
          ELSE lista[k]]

\* The list after the loop of lines 659..670: r.grupo_divergencia_id = grupo_id
\* for every result that was put under a key.
Numerar(lista) ==
    LET chaves == ChavesEmOrdem(lista, <<>>)
    IN [k \in 1..Len(lista) |->
          IF tem_agrupado(lista[k].grupo)
          THEN [lista[k] EXCEPT !.grupo_divergencia_id = GrupoIdDe(chaves, Chave(lista[k]))]
          ELSE lista[k]]

\* grupos_numerados: grupo_id -> results of that key, in list order.
detectar_grupos_divergentes_agrupadas(lista) ==
    LET chaves    == ChavesEmOrdem(lista, <<>>)
        numerados == Numerar(lista)
    IN [gid \in 1..Len(chaves) |->
          SelectSeq(numerados, LAMBDA r : tem_agrupado(r.grupo) /\ Chave(r) = chaves[gid])]

(******************** calcular_cancelamentos_estornos **********************)
\* Mutation: the reversal sum is negated whatever its sign.
calcular_cancelamentos_estornos_sempre_inverte(lista) ==
    LET c == SomaBoleto(SelectSeq(lista, LAMBDA t : t.eh_cancelamento))
        e == SomaBoleto(SelectSeq(lista, LAMBDA t : t.eh_estorno))
    IN [cancelamento |-> c, estorno |-> -e]

calcular_cancelamentos_estornos(lista) ==
    LET c == SomaBoleto(SelectSeq(lista, LAMBDA t : t.eh_cancelamento))
        e == SomaBoleto(SelectSeq(lista, LAMBDA t : t.eh_estorno))
    IN [cancelamento |-> c, estorno |-> IF e > 0 THEN -e ELSE e]

(****************************** gerar_resumo *******************************)
RECURSIVE SomaPlanilha(_)
SomaPlanilha(lista) ==
    IF lista = <<>> THEN 0 ELSE Head(lista).grupo.valor_planilha + SomaPlanilha(Tail(lista))

\* Mutation: the stale total sums the groups' allocated values.
SomaNFePlanilha(lista) == SomaPlanilha(lista)

\* sum(r.nfe.valor for r in lista if r.nfe)
RECURSIVE SomaNFe(_)
SomaNFe(lista) ==
    IF lista = <<>> THEN 0
    ELSE DecimalMais(IF Head(lista).nfe # <<>> THEN Head(lista).nfe[1].valor ELSE 0,
                     SomaNFe(Tail(lista)))

\* Mutation: the divergent bucket is left out of the total.
gerar_resumo_sem_divergentes(res, total_boleto, canc, est) ==
    LET identicas             == SomaPlanilha(res["IDENTICA"])
        divergentes_agrupadas == SomaPlanilha(res["DIVERGENTE_AGRUPADA"])
        divergentes           == SomaPlanilha(res["DIVERGENTE"])
        desconsideradas       == SomaNFe(res["DESCONSIDERADA"])
        nao_encontradas       == SomaPlanilha(res["NAO_ENCONTRADA"])
        total == DecimalMenos(DecimalMais(identicas + divergentes_agrupadas,
                                          desconsideradas),
                              nao_encontradas)
        valor_a_pagar == DecimalMenos(total, desconsideradas)
    IN [valor_do_boleto     |-> total_boleto,
        identicas           |-> identicas,
        agrupadas           |-> divergentes_agrupadas,
        divergentes         |-> divergentes,
        desconsideradas     |-> desconsideradas,
        nao_encontradas     |-> nao_encontradas,
        cancelamento        |-> canc,
        estornos            |-> est,
        total               |-> total,
        valor_a_pagar       |-> valor_a_pagar,
        diferenca_validacao |-> DecimalAbs(DecimalMenos(valor_a_pagar, total_boleto))]

gerar_resumo(res, total_boleto, canc, est) ==
    LET identicas             == SomaPlanilha(res["IDENTICA"])
        divergentes_agrupadas == SomaPlanilha(res["DIVERGENTE_AGRUPADA"])
        divergentes           == SomaPlanilha(res["DIVERGENTE"])
        desconsideradas       == SomaNFe(res["DESCONSIDERADA"])
        nao_encontradas       == SomaPlanilha(res["NAO_ENCONTRADA"])
        total == DecimalMenos(DecimalMais(identicas + divergentes_agrupadas + divergentes,
                                          desconsideradas),
                              nao_encontradas)
        valor_a_pagar == DecimalMenos(total, desconsideradas)
    IN [valor_do_boleto     |-> total_boleto,
        identicas           |-> identicas,
        agrupadas           |-> divergentes_agrupadas,
        divergentes         |-> divergentes,
        desconsideradas     |-> desconsideradas,
        nao_encontradas     |-> nao_encontradas,
        cancelamento        |-> canc,
        estornos            |-> est,
        total               |-> total,
        valor_a_pagar       |-> valor_a_pagar,
        diferenca_validacao |-> DecimalAbs(DecimalMenos(valor_a_pagar, total_boleto))]

SemResumo == [valor_do_boleto |-> 0, identicas |-> 0, agrupadas |-> 0, divergentes |-> 0,
              desconsideradas |-> 0, nao_encontradas |-> 0, cancelamento |-> 0,
              estornos |-> 0, total |-> 0, valor_a_pagar |-> 0, diferenca_validacao |-> 0]

(********************************* inputs **********************************)
\* Rows whose NFe cell yields numbers, rows flagged as cancellation or as
\* reversal (empty set of numbers), and rows whose date does not parse.  The
\* tax id and deferral cells are empty: the station id is "", the company
\* id Config.CNPJ_EMPRESA and the deferral flag the default.
LinhasPlanilha ==
    {[numeros |-> S, cancelamento |-> FALSE, estorno |-> FALSE,
      valor |-> vd[1], data |-> <<vd[2]>>,
      cnpj_posto |-> <<>>, cnpj_empresa |-> <<>>, postergado |-> <<>>] :
        S \in (SUBSET Numeros) \ {{}}, vd \in ValoresEDatas}
    \cup {[numeros |-> {}, cancelamento |-> TRUE, estorno |-> FALSE,
           valor |-> 10101, data |-> <<DATA_FECHAMENTO - 60>>,
           cnpj_posto |-> <<>>, cnpj_empresa |-> <<>>, postergado |-> <<>>],
          [numeros |-> {}, cancelamento |-> FALSE, estorno |-> TRUE,
           valor |-> 10102, data |-> <<DATA_FECHAMENTO - 60>>,
           cnpj_posto |-> <<>>, cnpj_empresa |-> <<>>, postergado |-> <<>>],
          [numeros |-> {<<2>>}, cancelamento |-> FALSE, estorno |-> FALSE,
           valor |-> 10101, data |-> <<>>,
           cnpj_posto |-> <<>>, cnpj_empresa |-> <<>>, postergado |-> <<>>]}

NotasFiscais == [numero : Numeros, valor : ValoresNFe]

\* One invoice of each number of S, listed in ascending str order.
RECURSIVE ListaDeNotas(_, _)
ListaDeNotas(numeros, valor) ==
    IF numeros = <<>> THEN <<>>
    ELSE <<[numero |-> Head(numeros), valor |-> valor]>> \o ListaDeNotas(Tail(numeros), valor)

\* The lists of parsed invoices drawn as input: any set of numbers present.
ListasNFe == {ListaDeNotas(sorted(S), v) : S \in SUBSET Numeros, v \in ValoresNFe}

Init ==
    /\ pc = "carregar"
    /\ planilha \in SeqAte(LinhasPlanilha, MaxTrans)
    /\ nfes \in ListasNFe
    /\ transacoes = <<>>
    /\ valor_total_boleto = 0
    /\ grupos = <<>>
    /\ resultados = ResultadosVazios
    /\ grupos_numerados = <<>>
    /\ cancelamento = 0
    /\ estorno = 0
    /\ resumo = SemResumo
    /\ texto = <<>>
    /\ extraido = SemExtracao
    /\ celula = SemCelula
    /\ convertido = 0

(********************************* main ************************************)
\* Steps 1-2: "if not nfes: return"; carregar_transacoes_da_planilha;
\* "if not transacoes: return".
CarregarTransacoes ==
    /\ pc = "carregar"
    /\ LET r == CarregarLinhas(planilha, PrimeiraLinha)
       IN IF nfes = <<>>
          THEN /\ pc' = "fim"
               /\ UNCHANGED <<transacoes, valor_total_boleto>>
          ELSE /\ transacoes' = r.transacoes
               /\ valor_total_boleto' = r.total
               /\ pc' = IF r.transacoes = <<>> THEN "fim" ELSE "agrupar"
    /\ UNCHANGED <<planilha, nfes, grupos, resultados, grupos_numerados,
                   cancelamento, estorno, resumo,
                   texto, extraido, celula, convertido>>

\* Step 3: criar_grupos_nfe; "if not grupos: return".
CriarGruposNFe ==
    /\ pc = "agrupar"
    /\ \E ordens \in Ordens(transacoes) :
          /\ grupos' = criar_grupos_nfe(transacoes, ordens)
          /\ pc' = IF grupos' = <<>> THEN "fim" ELSE "confrontar"
    /\ UNCHANGED <<planilha, nfes, transacoes, valor_total_boleto, resultados,
                   grupos_numerados, cancelamento, estorno, resumo,
                   texto, extraido, celula, convertido>>

\* Step 4: processar_confrontamento; an exception it lets through ends main
\* (pc = "erro") with nothing returned.
ProcessarConfrontamento ==
    /\ pc = "confrontar"
    /\ IF processar_confrontamento_levanta(grupos, nfes)
       THEN /\ pc' = "erro"
            /\ UNCHANGED resultados
       ELSE /\ resultados' = processar_confrontamento(grupos, nfes)
            /\ pc' = "detectar"
    /\ UNCHANGED <<planilha, nfes, transacoes, valor_total_boleto, grupos,
                   grupos_numerados, cancelamento, estorno, resumo,
                   texto, extraido, celula, convertido>>

\* Step 5: detectar_grupos_divergentes_agrupadas on the DIVERGENTE_AGRUPADA
\* bucket; the results of that list are annotated in place.
DetectarGrupos ==
    /\ pc = "detectar"
    /\ grupos_numerados' =
          detectar_grupos_divergentes_agrupadas(resultados["DIVERGENTE_AGRUPADA"])
    /\ resultados' = [resultados EXCEPT !["DIVERGENTE_AGRUPADA"] = Numerar(@)]
    /\ pc' = "cancelamentos"
    /\ UNCHANGED <<planilha, nfes, transacoes, valor_total_boleto, grupos,
                   cancelamento, estorno, resumo,
                   texto, extraido, celula, convertido>>

\* Step 6: calcular_cancelamentos_estornos.
CalcularCancelamentosEstornos ==
    /\ pc = "cancelamentos"
    /\ LET r == calcular_cancelamentos_estornos(transacoes)
       IN /\ cancelamento' = r.cancelamento
          /\ estorno' = r.estorno
    /\ pc' = "resumo"
    /\ UNCHANGED <<planilha, nfes, transacoes, valor_total_boleto, grupos,
                   resultados, grupos_numerados, resumo,
                   texto, extraido, celula, convertido>>

\* Step 7: gerar_resumo.
GerarResumo ==
    /\ pc = "resumo"
    /\ resumo' = gerar_resumo(resultados, valor_total_boleto, cancelamento, estorno)
    /\ pc' = "fim"
    /\ UNCHANGED <<planilha, nfes, transacoes, valor_total_boleto, grupos,
                   resultados, grupos_numerados, cancelamento, estorno,
                   texto, extraido, celula, convertido>>

Next ==
    \/ CarregarTransacoes
    \/ CriarGruposNFe
    \/ ProcessarConfrontamento
    \/ DetectarGrupos
    \/ CalcularCancelamentosEstornos
    \/ GerarResumo

Spec == Init /\ [][Next]_vars

(************* main on spreadsheets with any value and tax id **************)
\* Tax id cells: empty, a formatted 14-digit id, a 3-digit text.
CelulasCnpj ==
    {<<>>,
     <<<<"1", "2", ".", "3", "4", "5", ".", "6", "7", "8", "/", "0", "0", "0", "1", "-",
         "9", "0">>>>,
     <<<<"1", "2", "3">>>>}

\* Billed values as converter_valor returns them: positive, zero (also the
\* result for a cell that does not parse) and negative.
ValoresLivres == {10101, 0, -500}

\* Billed values of reversal rows: entered as a magnitude or as a negative
\* amount.
ValoresEstorno == {10102, -10102, -20000}

\* Rows naming invoice "2" with any value and tax id cells, reversal rows
\* and a cancellation row.
LinhasLivres ==
    {[numeros |-> {<<2>>}, cancelamento |-> FALSE, estorno |-> FALSE,
      valor |-> v, data |-> <<DATA_FECHAMENTO - 60>>,
      cnpj_posto |-> cp, cnpj_empresa |-> ce, postergado |-> <<>>] :
        v \in ValoresLivres, cp \in CelulasCnpj, ce \in CelulasCnpj \ {<<<<"1", "2", "3">>>>}}
    \cup {[numeros |-> {}, cancelamento |-> FALSE, estorno |-> TRUE,
           valor |-> v, data |-> <<DATA_FECHAMENTO - 60>>,
           cnpj_posto |-> <<>>, cnpj_empresa |-> <<>>, postergado |-> <<>>] :
              v \in ValoresEstorno}
    \cup {[numeros |-> {}, cancelamento |-> TRUE, estorno |-> FALSE,
           valor |-> 10101, data |-> <<DATA_FECHAMENTO - 60>>,
           cnpj_posto |-> <<>>, cnpj_empresa |-> <<>>, postergado |-> <<>>]}

InitEntradas ==
    /\ pc = "carregar"
    /\ planilha \in SeqAte(LinhasLivres, MaxTrans)
    /\ nfes \in {ListaDeNotas(<<<<2>>>>, v) : v \in ValoresNFe}
    /\ transacoes = <<>>
    /\ valor_total_boleto = 0
    /\ grupos = <<>>
    /\ resultados = ResultadosVazios
    /\ grupos_numerados = <<>>
    /\ cancelamento = 0
    /\ estorno = 0
    /\ resumo = SemResumo
    /\ texto = <<>>
    /\ extraido = SemExtracao
    /\ celula = SemCelula
    /\ convertido = 0

SpecEntradas == InitEntradas /\ [][Next]_vars

(****************** main on invoices whose vNF may be "NaN" ****************)
\* Rows that name invoices, within the period.
LinhasNoPrazo ==
    {row \in LinhasPlanilha :
        /\ row.numeros # {}
        /\ row.data = <<DATA_FECHAMENTO - PERIODO_MAXIMO_DIAS>>}

\* The lists with one invoice per number, each with a value of valores.
RECURSIVE ListasDeNotas(_, _)
ListasDeNotas(numeros, valores) ==
    IF numeros = <<>> THEN {<<>>}
    ELSE {<<[numero |-> Head(numeros), valor |-> v]>> \o r :
             v \in valores, r \in ListasDeNotas(Tail(numeros), valores)}

ListasNFeComNaN ==
    UNION {ListasDeNotas(sorted(S), ValoresNFe \cup {DecimalNaN}) : S \in SUBSET Numeros}

InitNaN ==
    /\ pc = "carregar"
    /\ planilha \in SeqAte(LinhasNoPrazo, MaxTrans)
    /\ nfes \in ListasNFeComNaN
    /\ transacoes = <<>>
    /\ valor_total_boleto = 0
    /\ grupos = <<>>
    /\ resultados = ResultadosVazios
    /\ grupos_numerados = <<>>
    /\ cancelamento = 0
    /\ estorno = 0
    /\ resumo = SemResumo
    /\ texto = <<>>
    /\ extraido = SemExtracao
    /\ celula = SemCelula
    /\ convertido = 0

SpecNaN == InitNaN /\ [][Next]_vars

(************* main on stale rows and invoices whose vNF may be "NaN" ******)
\* Rows that name "2" alone or "9" alone, 60 or 61 days before the closing.
LinhasDeUmaNota ==
    {row \in LinhasPlanilha :
        row.data # <<>> /\ row.numeros \in {{<<2>>}, {<<9>>}}}

\* One invoice per number of {"2", "9"}, of value 100.00, 200.00 or NaN.
ListasNFeVencidas ==
    UNION {ListasDeNotas(sorted(S), {10000, 20000, DecimalNaN}) :
              S \in SUBSET {<<2>>, <<9>>}}

InitVencidas ==
    /\ pc = "carregar"
    /\ planilha \in SeqAte(LinhasDeUmaNota, MaxTrans)
    /\ nfes \in ListasNFeVencidas
    /\ transacoes = <<>>
    /\ valor_total_boleto = 0
    /\ grupos = <<>>
    /\ resultados = ResultadosVazios
    /\ grupos_numerados = <<>>
    /\ cancelamento = 0
    /\ estorno = 0
    /\ resumo = SemResumo
    /\ texto = <<>>
    /\ extraido = SemExtracao
    /\ celula = SemCelula
    /\ convertido = 0

SpecVencidas == InitVencidas /\ [][Next]_vars

(************** main on rows whose NFe cell holds keywords *****************)
\* NFe cell texts: "Cancelado", "Estorno", "Cancelado estorno" and "NFe2".
TextosComPalavras ==
    {<<"C", "a", "n", "c", "e", "l", "a", "d", "o">>,
     <<"E", "s", "t", "o", "r", "n", "o">>,
     <<"C", "a", "n", "c", "e", "l", "a", "d", "o", " ", "e", "s", "t", "o", "r", "n", "o">>,
     <<"N", "F", "e", "2">>}

\* The row with that NFe cell, as lines 387..391 read it.
LinhaDoTexto(t, valor) ==
    LET e == extrair_numeros_nfe(t)
    IN [numeros |-> e.numeros, cancelamento |-> e.eh_cancelamento,
        estorno |-> e.eh_estorno,
        valor |-> valor, data |-> <<DATA_FECHAMENTO - 60>>,
        cnpj_posto |-> <<>>, cnpj_empresa |-> <<>>, postergado |-> <<>>]

LinhasComPalavras == {LinhaDoTexto(t, v) : t \in TextosComPalavras, v \in {700, 10101}}

InitPalavras ==
    /\ pc = "carregar"
    /\ planilha \in SeqAte(LinhasComPalavras, MaxTrans)
    /\ nfes \in ListasNFe
    /\ transacoes = <<>>
    /\ valor_total_boleto = 0
    /\ grupos = <<>>
    /\ resultados = ResultadosVazios
    /\ grupos_numerados = <<>>
    /\ cancelamento = 0
    /\ estorno = 0
    /\ resumo = SemResumo
    /\ texto = <<>>
    /\ extraido = SemExtracao
    /\ celula = SemCelula
    /\ convertido = 0

SpecPalavras == InitPalavras /\ [][Next]_vars

(************************ main on a smaller batch **************************)
\* The rows of LinhasPlanilha that name "2" alone, "9" alone, "10" and "2",
\* or "10" and "9", and the cancellation and the reversal row.
LinhasDoLote ==
    {row \in LinhasPlanilha :
        /\ row.data # <<>>
        /\ row.numeros \in {{}, {<<2>>}, {<<9>>}, {<<1, 0>>, <<2>>}, {<<1, 0>>, <<9>>}}}

InitLote ==
    /\ pc = "carregar"
    /\ planilha \in SeqAte(LinhasDoLote, MaxTrans)
    /\ nfes \in ListasNFe
    /\ transacoes = <<>>
    /\ valor_total_boleto = 0
    /\ grupos = <<>>
    /\ resultados = ResultadosVazios
    /\ grupos_numerados = <<>>
    /\ cancelamento = 0
    /\ estorno = 0
    /\ resumo = SemResumo
    /\ texto = <<>>
    /\ extraido = SemExtracao
    /\ celula = SemCelula
    /\ convertido = 0

SpecLote == InitLote /\ [][Next]_vars

(************ main on rows bought before and after the closing *************)
\* Rows naming "2", bought 61 or 60 days before the closing date, on it, the
\* day after it and 61 days after it.
DiasAteFechamento == {61, 60, 0, -1, -61}

LinhasComDatas ==
    {[numeros |-> {<<2>>}, cancelamento |-> FALSE, estorno |-> FALSE,
      valor |-> 10101, data |-> <<DATA_FECHAMENTO - d>>,
      cnpj_posto |-> <<>>, cnpj_empresa |-> <<>>, postergado |-> <<>>] :
        d \in DiasAteFechamento}

InitDatas ==
    /\ pc = "carregar"
    /\ planilha \in SeqAte(LinhasComDatas, MaxTrans)
    /\ nfes \in ListasNFe
    /\ transacoes = <<>>
    /\ valor_total_boleto = 0
    /\ grupos = <<>>
    /\ resultados = ResultadosVazios
    /\ grupos_numerados = <<>>
    /\ cancelamento = 0
    /\ estorno = 0
    /\ resumo = SemResumo
    /\ texto = <<>>
    /\ extraido = SemExtracao
    /\ celula = SemCelula
    /\ convertido = 0

SpecDatas == InitDatas /\ [][Next]_vars

(********** main on rows with differing descriptive cells ******************)
\* Rows naming "2" alone or "2" and "9", 60 or 61 days before closing, with
\* the station id, company id and deferral cells empty or filled.
LinhasDescritivas ==
    {[numeros |-> S, cancelamento |-> FALSE, estorno |-> FALSE,
      valor |-> 10101, data |-> <<d>>,
      cnpj_posto |-> cp, cnpj_empresa |-> ce, postergado |-> po] :
        S \in {{<<2>>}, {<<2>>, <<9>>}},
        d \in {DATA_FECHAMENTO - 60, DATA_FECHAMENTO - 61},
        cp \in {<<>>, <<<<"1", "2", "3">>>>},
        ce \in {<<>>, <<<<"4", "5", ".", "6">>>>},
        po \in {<<>>, <<"Sim">>}}

InitDescritivos ==
    /\ pc = "carregar"
    /\ planilha \in SeqAte(LinhasDescritivas, MaxTrans)
    /\ nfes \in {ListaDeNotas(<<<<2>>>>, v) : v \in ValoresNFe}
    /\ transacoes = <<>>
    /\ valor_total_boleto = 0
    /\ grupos = <<>>
    /\ resultados = ResultadosVazios
    /\ grupos_numerados = <<>>
    /\ cancelamento = 0
    /\ estorno = 0
    /\ resumo = SemResumo
    /\ texto = <<>>
    /\ extraido = SemExtracao
    /\ celula = SemCelula
    /\ convertido = 0

SpecDescritivos == InitDescritivos /\ [][Next]_vars

(************** main on invoice lists with repeated numbers ****************)
\* Rows naming "2", "9" or both.
LinhasDoisNumeros ==
    {row \in LinhasPlanilha :
        /\ row.numeros # {}
        /\ row.numeros \subseteq {<<2>>, <<9>>}
        /\ row.data # <<>>}

\* Invoices "2" and "9" with a total within the tolerance of the billed
\* values drawn or far from them.
NotasRepetiveis == [numero : {<<2>>, <<9>>}, valor : {10000, 20000}]

InitDuplicadas ==
    /\ pc = "carregar"
    /\ planilha \in SeqAte(LinhasDoisNumeros, MaxTrans)
    /\ nfes \in SeqAte(NotasRepetiveis, MaxNFes)
    /\ transacoes = <<>>
    /\ valor_total_boleto = 0
    /\ grupos = <<>>
    /\ resultados = ResultadosVazios
    /\ grupos_numerados = <<>>
    /\ cancelamento = 0
    /\ estorno = 0
    /\ resumo = SemResumo
    /\ texto = <<>>
    /\ extraido = SemExtracao
    /\ celula = SemCelula
    /\ convertido = 0

SpecDuplicadas == InitDuplicadas /\ [][Next]_vars

(***************** processar_confrontamento called on its own **************)
\* A GrupoNFe built by hand: the dataclass takes any two lists of
\* contributors, empty ones included, and any allocated value.
ContribuinteIndividual(numero, data) ==
    [numeros_nfe |-> {numero}, data_abastecimento |-> data, valor_boleto |-> 10101,
     cnpj_posto |-> <<>>, cnpj_empresa |-> CNPJ_EMPRESA, postergado |-> "Nao",
     linha |-> PrimeiraLinha, eh_cancelamento |-> FALSE, eh_estorno |-> FALSE]

ContribuinteAgrupado(numero, data) ==
    [numeros_nfe |-> Numeros, data_abastecimento |-> data, valor_boleto |-> 10101,
     cnpj_posto |-> <<>>, cnpj_empresa |-> CNPJ_EMPRESA, postergado |-> "Nao",
     linha |-> PrimeiraLinha + 1, eh_cancelamento |-> FALSE, eh_estorno |-> FALSE]

GrupoLivre(numero, data, valor, ind, agr) ==
    [numero_nfe             |-> numero,
     data_abastecimento     |-> data,
     cnpj_posto             |-> <<>>,
     cnpj_empresa           |-> CNPJ_EMPRESA,
     valor_planilha         |-> valor,
     postergado             |-> "Nao",
     transacoes_individuais |-> ind,
     transacoes_agrupadas   |-> agr,
     linhas                 |-> [k \in 1..Len(ind \o agr) |-> (ind \o agr)[k].linha]]

GruposLivres ==
    {GrupoLivre(numero, data, valor,
                IF tem_ind THEN <<ContribuinteIndividual(numero, data)>> ELSE <<>>,
                IF tem_agr THEN <<ContribuinteAgrupado(numero, data)>> ELSE <<>>) :
        numero \in Numeros,
        data \in {DATA_FECHAMENTO - 60, DATA_FECHAMENTO - 61},
        valor \in {0, 10000, 10102},
        tem_ind \in BOOLEAN, tem_agr \in BOOLEAN}

InitConfrontar ==
    /\ pc = "confrontar"
    /\ grupos \in {<<g>> : g \in GruposLivres}
    /\ nfes \in ListasNFe
    /\ planilha = <<>>
    /\ transacoes = <<>>
    /\ valor_total_boleto = 0
    /\ resultados = ResultadosVazios
    /\ grupos_numerados = <<>>
    /\ cancelamento = 0
    /\ estorno = 0
    /\ resumo = SemResumo
    /\ texto = <<>>
    /\ extraido = SemExtracao
    /\ celula = SemCelula
    /\ convertido = 0

NextConfrontar == ProcessarConfrontamento

SpecConfrontar == InitConfrontar /\ [][NextConfrontar]_vars

(******************* extrair_numeros_nfe called on its own *****************)
\* Pieces of NFe cell texts: the keywords arise by concatenation
\* ("Cancel" "ado", "Cancel" "AMENTO"), so do near misses ("Cancel" alone,
\* "Cancel" " " "ado") and multi-digit numbers ("10" "2").
Fragmentos ==
    {<<"C", "a", "n", "c", "e", "l">>, <<"a", "d", "o">>,
     <<"A", "M", "E", "N", "T", "O">>, <<"E", "s", "t", "o", "r", "n", "o">>,
     <<"N", "F", "e">>, <<"1", "0">>, <<"2">>, <<",">>, <<" ">>}

RECURSIVE Concatenar(_)
Concatenar(partes) ==
    IF partes = <<>> THEN <<>> ELSE Head(partes) \o Concatenar(Tail(partes))

Textos == {Concatenar(partes) : partes \in SeqAte(Fragmentos, MaxFragmentos)}

\* The pipeline variables of a state in which only the utility is called.
SemPipeline ==
    /\ planilha = <<>>
    /\ nfes = <<>>
    /\ transacoes = <<>>
    /\ valor_total_boleto = 0
    /\ grupos = <<>>
    /\ resultados = ResultadosVazios
    /\ grupos_numerados = <<>>
    /\ cancelamento = 0
    /\ estorno = 0
    /\ resumo = SemResumo

InitExtrair ==
    /\ pc = "extrair"
    /\ texto \in Textos
    /\ extraido = SemExtracao
    /\ celula = SemCelula
    /\ convertido = 0
    /\ SemPipeline

ExtrairNumerosNFe ==
    /\ pc = "extrair"
    /\ extraido' = extrair_numeros_nfe(texto)
    /\ pc' = "extraido"
    /\ UNCHANGED <<planilha, nfes, transacoes, valor_total_boleto, grupos, resultados,
                   grupos_numerados, cancelamento, estorno, resumo, texto,
                   celula, convertido>>

NextExtrair == ExtrairNumerosNFe

SpecExtrair == InitExtrair /\ [][NextExtrair]_vars

(******************** converter_valor called on its own ********************)
\* Whole ints, and floats and Decimals of up to MaxMilesimos thousandths.
Celulas ==
    {SemCelula}
    \cup [tipo : {"int"}, milesimos : {-1000, 0, 1000}]
    \cup [tipo : {"float", "Decimal"}, milesimos : -MaxMilesimos..MaxMilesimos]

InitConverter ==
    /\ pc = "converter"
    /\ celula \in Celulas
    /\ convertido = 0
    /\ texto = <<>>
    /\ extraido = SemExtracao
    /\ SemPipeline

ConverterValor ==
    /\ pc = "converter"
    /\ convertido' = converter_valor(celula)
    /\ pc' = "convertido"
    /\ UNCHANGED <<planilha, nfes, transacoes, valor_total_boleto, grupos, resultados,
                   grupos_numerados, cancelamento, estorno, resumo, texto, extraido,
                   celula>>

NextConverter == ConverterValor

SpecConverter == InitConverter /\ [][NextConverter]_vars

(***************************************************************************)
(* Properties                                                              *)
(***************************************************************************)
\* criar_grupos_nfe has returned.
Agrupado == pc \in {"confrontar", "detectar", "cancelamentos", "resumo"}
            \/ (pc = "fim" /\ grupos # <<>>)

\* processar_confrontamento has returned.
Confrontado == pc \in {"detectar", "cancelamentos", "resumo"}
               \/ (pc = "fim" /\ grupos # <<>>)

\* detectar_grupos_divergentes_agrupadas has returned.
Detectado == pc \in {"cancelamentos", "resumo"} \/ (pc = "fim" /\ grupos # <<>>)

\* gerar_resumo has returned.
Resumido == pc = "fim" /\ grupos # <<>>

Elementos(lista) == {lista[k] : k \in 1..Len(lista)}

TodosResultados(res) == UNION {Elementos(res[t]) : t \in TiposResultado}

Valida(trans) == ~trans.eh_cancelamento /\ ~trans.eh_estorno

\* The group of an invoice number in the group map.
GruposDe(numero) == {g \in Elementos(grupos) : g.numero_nfe = numero}

\* The groups whose valor_planilha sums the billed value of trans.
GruposQueSomam(trans) ==
    {g \in Elementos(grupos) :
        trans \in Elementos(Parcelas(g.numero_nfe, g.transacoes_individuais,
                                     g.transacoes_agrupadas))}

\* C1 (as claimed): after criar_grupos_nfe, the billed value of every valid
\* transaction that references two or more invoice numbers is summed into
\* the valor_planilha of exactly one group.
C1_AgrupadaContadaUmaVez ==
    Agrupado =>
        \A t \in Elementos(transacoes) :
            (Valida(t) /\ Cardinality(t.numeros_nfe) >= 2)
                => Cardinality(GruposQueSomam(t)) = 1

\* The individual contributors of an invoice number, read off the
\* transaction list: valid transactions naming exactly that number.
IndividuaisDe(numero) ==
    SelectSeq(transacoes, LAMBDA t : Valida(t) /\ t.numeros_nfe = {numero})

AgrupadasDe(numero) ==
    SelectSeq(transacoes, LAMBDA t : Valida(t) /\ numero \in t.numeros_nfe
                                     /\ Cardinality(t.numeros_nfe) >= 2)

\* C2: a group whose invoice number has at least one individual contributor
\* allocates exactly the sum of the billed values of its individual
\* contributors, whatever combined contributors it also has.
C2_SomaSoIndividuais ==
    \A g \in Elementos(grupos) :
        IndividuaisDe(g.numero_nfe) # <<>>
            => g.valor_planilha = SomaBoleto(IndividuaisDe(g.numero_nfe))

\* C2 witness: a group with individual and combined contributors.
C2_Witness ==
    \E g \in Elementos(grupos) :
        /\ IndividuaisDe(g.numero_nfe) # <<>>
        /\ AgrupadasDe(g.numero_nfe) # <<>>
        /\ SomaBoleto(AgrupadasDe(g.numero_nfe)) > 0

SoAgrupado(g) == ~tem_individual(g) /\ tem_agrupado(g)

\* The originating row of a combined-only group: its first combined contributor.
LinhaOrigem(g) == g.transacoes_agrupadas[1]

EhMinimoLexicografico(numero, S) ==
    numero \in S /\ \A m \in S \ {numero} : StrMenor(numero, m)

\* C3 (as claimed): a combined-only group allocates a nonzero value iff its
\* number is the lexicographic minimum of its originating row's reference
\* set, and every other member of that reference set allocates zero.
C3_AncoraETodosOsOutrosZero ==
    \A g \in Elementos(grupos) :
        SoAgrupado(g) =>
            /\ (g.valor_planilha # 0
                  <=> EhMinimoLexicografico(g.numero_nfe, LinhaOrigem(g).numeros_nfe))
            /\ \A m \in LinhaOrigem(g).numeros_nfe :
                  ~EhMinimoLexicografico(m, LinhaOrigem(g).numeros_nfe)
                      => \A h \in GruposDe(m) : h.valor_planilha = 0

\* C3 (amended): a combined-only group allocates a nonzero value iff its
\* number is the lexicographic minimum of its originating row's reference
\* set; every other combined-only group with the same originating row
\* allocates zero.
C3_AncoraLexicografica ==
    \A g \in Elementos(grupos) :
        SoAgrupado(g) =>
            /\ (g.valor_planilha # 0
                  <=> EhMinimoLexicografico(g.numero_nfe, LinhaOrigem(g).numeros_nfe))
            /\ \A h \in Elementos(grupos) :
                  (/\ SoAgrupado(h)
                   /\ LinhaOrigem(h) = LinhaOrigem(g)
                   /\ ~EhMinimoLexicografico(h.numero_nfe, LinhaOrigem(g).numeros_nfe))
                      => h.valor_planilha = 0

\* C3 witness: a row naming "10" and "2" (str minimum "10", numeric minimum
\* "2") is the origin of two combined-only groups, one allocating its value
\* and one allocating zero.
C3_Witness ==
    \E g, h \in Elementos(grupos) :
        /\ SoAgrupado(g) /\ SoAgrupado(h)
        /\ LinhaOrigem(g) = LinhaOrigem(h)
        /\ g.numero_nfe = <<1, 0>> /\ h.numero_nfe = <<2>>
        /\ g.valor_planilha > 0 /\ h.valor_planilha = 0

\* Positions (bucket, index) of the results that own group g.
PosicoesDe(g) ==
    UNION {{<<t, k>> : k \in {i \in 1..Len(resultados[t]) : resultados[t][i].grupo = g}} :
              t \in TiposResultado}

RECURSIVE SomaCard(_)
SomaCard(T) ==
    IF T = {} THEN 0
    ELSE LET t == CHOOSE x \in T : TRUE IN Len(resultados[t]) + SomaCard(T \ {t})

\* C4: after processar_confrontamento every group of the map is in exactly
\* one of the five buckets, every result sits in the bucket of its tipo and
\* belongs to a group of the map, and there are as many results as groups.
C4_ParticaoCompleta ==
    Confrontado =>
        /\ \A g \in Elementos(grupos) : Cardinality(PosicoesDe(g)) = 1
        /\ \A t \in TiposResultado : \A r \in Elementos(resultados[t]) :
              r.tipo = t /\ r.grupo \in Elementos(grupos)
        /\ SomaCard(TiposResultado) = Len(grupos)

\* C4 witness: three groups classified into three different buckets, one of
\* them DESCONSIDERADA.
C4_Witness ==
    /\ Confrontado
    /\ Len(grupos) = 3
    /\ Cardinality({t \in TiposResultado : resultados[t] # <<>>}) = 3
    /\ resultados["DESCONSIDERADA"] # <<>>

\* The key of a DIVERGENTE_AGRUPADA result: the row number of the first
\* combined contributor of its group.
LinhaDaOrigem(r) == r.grupo.transacoes_agrupadas[1].linha

IdsEmUso(lista) == {r.grupo_divergencia_id : r \in Elementos(lista)}

\* C5: after detectar_grupos_divergentes_agrupadas every DIVERGENTE_AGRUPADA
\* result has an id, two results of the same origin row have the same id,
\* and the ids in use are exactly 1..k for the k distinct origin rows.
C5_IdsDensos ==
    Detectado =>
        LET lista == resultados["DIVERGENTE_AGRUPADA"]
            k     == Cardinality({LinhaDaOrigem(r) : r \in Elementos(lista)})
        IN /\ \A r \in Elementos(lista) : r.grupo_divergencia_id # SemGrupoId
           /\ \A r1, r2 \in Elementos(lista) :
                 LinhaDaOrigem(r1) = LinhaDaOrigem(r2)
                     => r1.grupo_divergencia_id = r2.grupo_divergencia_id
           /\ IdsEmUso(lista) = 1..k

\* C5 witness: three DIVERGENTE_AGRUPADA results from two origin rows, two
\* of them sharing a row.
C5_Witness ==
    /\ Detectado
    /\ Len(resultados["DIVERGENTE_AGRUPADA"]) = 3
    /\ IdsEmUso(resultados["DIVERGENTE_AGRUPADA"]) = {1, 2}

\* The classification partition: bucket, invoice number, allocated value
\* and difference of every result.
Particao(res) ==
    {<<r.tipo, r.grupo.numero_nfe, r.grupo.valor_planilha, r.diferenca>> :
        r \in TodosResultados(res)}

\* The iteration orders of the run in which every set of numbers is
\* visited in ascending str order: one of the orders a run may take.
OrdemCrescente == [i \in 1..Len(transacoes) |-> sorted(transacoes[i].numeros_nfe)]

\* The steps of main from grouping on, for that run.
ResultadosRef == processar_confrontamento(criar_grupos_nfe(transacoes, OrdemCrescente), nfes)

NumeradosRef == Numerar(ResultadosRef["DIVERGENTE_AGRUPADA"])

ResumoRef ==
    LET ce == calcular_cancelamentos_estornos(transacoes)
    IN gerar_resumo(ResultadosRef, valor_total_boleto, ce.cancelamento, ce.estorno)

\* C6: whatever the order in which each transaction's set of numbers (and
\* hence the group map) is iterated, the partition that
\* processar_confrontamento returns, the partition at the end of the run and
\* the Resumo are those of the run on the same inputs that iterates every
\* set in ascending order; so any two runs on the same inputs agree on them.
C6_ParticaoEResumoDeterministicos ==
    /\ pc = "detectar" => Particao(resultados) = Particao(ResultadosRef)
    /\ Resumido => /\ Particao(resultados) = Particao(ResultadosRef)
                   /\ resumo = ResumoRef

\* C6 witness: a finished run that iterated some set in another order than
\* the ascending one (its group map is ordered differently) and in which
\* the anchor of a combined row allocates a value.
C6_Witness ==
    /\ Resumido
    /\ grupos # criar_grupos_nfe(transacoes, OrdemCrescente)
    /\ \E g \in Elementos(grupos) : SoAgrupado(g) /\ g.valor_planilha > 0

\* The id assignment: invoice number -> divergence-group id.
IdsPorNumero(lista) == {<<r.grupo.numero_nfe, r.grupo_divergencia_id>> : r \in Elementos(lista)}

\* C7: whatever the order in which the sets of numbers are iterated, the
\* divergence-group id that detectar_grupos_divergentes_agrupadas gives each
\* DIVERGENTE_AGRUPADA result, and the whole output at the end of the run
\* (partition, id assignment, Resumo), are those of the run on the same
\* inputs that iterates every set in ascending order; so any two runs on
\* the same inputs agree on them.
C7_IdsDeterministicos ==
    /\ pc = "cancelamentos" =>
          IdsPorNumero(resultados["DIVERGENTE_AGRUPADA"]) = IdsPorNumero(NumeradosRef)
    /\ Resumido =>
          /\ IdsPorNumero(resultados["DIVERGENTE_AGRUPADA"]) = IdsPorNumero(NumeradosRef)
          /\ Particao(resultados) = Particao(ResultadosRef)
          /\ resumo = ResumoRef

\* C7 witness: a finished run whose DIVERGENTE_AGRUPADA bucket is ordered
\* differently from the ascending run's and holds two results of one
\* combined row, with the same id.
C7_Witness ==
    /\ Resumido
    /\ \E r1, r2 \in Elementos(resultados["DIVERGENTE_AGRUPADA"]) :
          /\ r1 # r2
          /\ LinhaDaOrigem(r1) = LinhaDaOrigem(r2)
          /\ r1.grupo_divergencia_id = r2.grupo_divergencia_id
    /\ resultados["DIVERGENTE_AGRUPADA"] # NumeradosRef

\* |allocated - invoice value| of a result with a matched invoice.
DiferencaDe(r) == Abs(r.grupo.valor_planilha - r.nfe[1].valor)

DiasDe(r) == Max(0, DATA_FECHAMENTO - r.grupo.data_abastecimento)

Divergentes == {"DIVERGENTE", "DIVERGENTE_AGRUPADA"}

\* C8: a result with a matched invoice, within the grace period, whose
\* difference equals the tolerance is IDENTICA; a divergent result has a
\* difference strictly greater than the tolerance
\* (ValorMonetario.dentro_tolerancia agrees).
C8_ToleranciaInclusiva ==
    \A r \in TodosResultados(resultados) :
        (r.nfe # <<>> /\ DiasDe(r) <= PERIODO_MAXIMO_DIAS) =>
            /\ DiferencaDe(r) = TOLERANCIA_VALOR => r.tipo = "IDENTICA"
            /\ r.tipo \in Divergentes => DiferencaDe(r) > TOLERANCIA_VALOR
            /\ r.tipo = "IDENTICA" <=>
                  dentro_tolerancia(r.grupo.valor_planilha, r.nfe[1].valor, TOLERANCIA_VALOR)

\* C8 witness: an IDENTICA result whose difference is exactly the tolerance.
C8_Witness ==
    \E r \in Elementos(resultados["IDENTICA"]) :
        r.nfe # <<>> /\ DiferencaDe(r) = TOLERANCIA_VALOR /\ r.diferenca = TOLERANCIA_VALOR

\* C9: a result with a matched invoice and deferred_days = grace period is
\* classified by value (IDENTICA iff within tolerance, else divergent),
\* never DESCONSIDERADA; with deferred_days = grace period + 1 it is
\* DESCONSIDERADA whatever the difference (Configuracao.esta_dentro_prazo
\* agrees).
C9_LimiteDoPrazo ==
    \A r \in TodosResultados(resultados) :
        r.nfe # <<>> =>
            /\ DiasDe(r) = PERIODO_MAXIMO_DIAS =>
                  /\ r.tipo \in {"IDENTICA"} \cup Divergentes
                  /\ r.tipo = "IDENTICA" <=> DiferencaDe(r) <= TOLERANCIA_VALOR
            /\ DiasDe(r) = PERIODO_MAXIMO_DIAS + 1 => r.tipo = "DESCONSIDERADA"
            /\ r.tipo = "DESCONSIDERADA" <=> ~esta_dentro_prazo(r.grupo.data_abastecimento)

\* C9 witness: one run with a result at exactly the grace period that is
\* IDENTICA and a result one day later, also within tolerance, that is
\* DESCONSIDERADA.
C9_Witness ==
    \E r1, r2 \in TodosResultados(resultados) :
        /\ r1.nfe # <<>> /\ DiasDe(r1) = PERIODO_MAXIMO_DIAS /\ r1.tipo = "IDENTICA"
        /\ r2.nfe # <<>> /\ DiasDe(r2) = PERIODO_MAXIMO_DIAS + 1
        /\ DiferencaDe(r2) <= TOLERANCIA_VALOR /\ r2.tipo = "DESCONSIDERADA"

NumerosNoIndice == {nfes[k].numero : k \in 1..Len(nfes)}

\* C10: a group whose number is absent from the invoice index is
\* NAO_ENCONTRADA, also beyond the grace period, with no matched invoice and
\* difference equal to its allocated value; NAO_ENCONTRADA holds no other
\* group.
C10_NaoEncontrada ==
    Confrontado =>
        /\ \A g \in Elementos(grupos) :
              g.numero_nfe \notin NumerosNoIndice =>
                  \E r \in Elementos(resultados["NAO_ENCONTRADA"]) :
                      /\ r.grupo = g
                      /\ r.tipo = "NAO_ENCONTRADA"
                      /\ r.nfe = <<>>
                      /\ r.diferenca = g.valor_planilha
        /\ \A r \in TodosResultados(resultados) :
              (r.tipo = "NAO_ENCONTRADA" \/ r.nfe = <<>>)
                  => r.grupo.numero_nfe \notin NumerosNoIndice

\* C10 witness: a NAO_ENCONTRADA result of a group beyond the grace period
\* with a nonzero allocated value.
C10_Witness ==
    \E r \in Elementos(resultados["NAO_ENCONTRADA"]) :
        /\ DiasDe(r) > PERIODO_MAXIMO_DIAS
        /\ r.grupo.valor_planilha > 0
        /\ r.diferenca = r.grupo.valor_planilha

\* The invoice the index holds for a number that is in it.
NotaDe(numero) == IndiceGet(nfes, numero)[1]

DiasDoGrupo(g) == Max(0, DATA_FECHAMENTO - g.data_abastecimento)

\* C11: a group whose number is in the invoice index and whose
\* deferred_days exceed the grace period is DESCONSIDERADA whether or not
\* its value matches, with that invoice as matched invoice and
\* |allocated - invoice value| as difference.
C11_Desconsiderada ==
    Confrontado =>
        \A g \in Elementos(grupos) :
            (g.numero_nfe \in NumerosNoIndice /\ DiasDoGrupo(g) > PERIODO_MAXIMO_DIAS) =>
                \E r \in Elementos(resultados["DESCONSIDERADA"]) :
                    /\ r.grupo = g
                    /\ r.tipo = "DESCONSIDERADA"
                    /\ r.nfe = <<NotaDe(g.numero_nfe)>>
                    /\ r.diferenca = Abs(g.valor_planilha - NotaDe(g.numero_nfe).valor)

\* C11 witness: one run with two DESCONSIDERADA results, one whose value
\* is within the tolerance of its invoice and one whose value is not.
C11_Witness ==
    /\ Confrontado
    /\ \E r1, r2 \in Elementos(resultados["DESCONSIDERADA"]) :
          /\ DiasDe(r1) > PERIODO_MAXIMO_DIAS /\ DiasDe(r2) > PERIODO_MAXIMO_DIAS
          /\ r1.diferenca <= TOLERANCIA_VALOR
          /\ r2.diferenca > TOLERANCIA_VALOR
          /\ r2.diferenca = DiferencaDe(r2)

\* C12: a group whose number is in the invoice index, within the grace
\* period and with a difference above the tolerance is DIVERGENTE_AGRUPADA
\* iff it has only combined contributors (origin kind AGRUPADO); with an
\* individual contributor (origin kind INDIVIDUAL or AMBOS) it is DIVERGENTE.
C12_DivergenteAgrupadaSoAgrupado ==
    Confrontado =>
        \A g \in Elementos(grupos) :
            (/\ g.numero_nfe \in NumerosNoIndice
             /\ DiasDoGrupo(g) <= PERIODO_MAXIMO_DIAS
             /\ Abs(g.valor_planilha - NotaDe(g.numero_nfe).valor) > TOLERANCIA_VALOR) =>
                /\ \E r \in TodosResultados(resultados) : r.grupo = g
                /\ \A r \in TodosResultados(resultados) :
                      r.grupo = g =>
                          /\ r.tipo \in Divergentes
                          /\ r.tipo = "DIVERGENTE_AGRUPADA"
                                <=> (g.transacoes_individuais = <<>>
                                     /\ g.transacoes_agrupadas # <<>>)
                          /\ r.tipo = "DIVERGENTE_AGRUPADA" <=> tipo_origem(g) = "AGRUPADO"
                          /\ r.tipo = "DIVERGENTE" <=> tipo_origem(g) \in {"INDIVIDUAL", "AMBOS"}

\* C12 witness: one run with a DIVERGENTE result of a group that has both
\* kinds of contributors and a DIVERGENTE_AGRUPADA result of a group that
\* has only combined ones.
C12_Witness ==
    /\ Confrontado
    /\ \E r1 \in Elementos(resultados["DIVERGENTE"]),
          r2 \in Elementos(resultados["DIVERGENTE_AGRUPADA"]) :
          /\ r1.grupo.transacoes_individuais # <<>>
          /\ r1.grupo.transacoes_agrupadas # <<>>
          /\ r2.grupo.transacoes_individuais = <<>>
          /\ r2.grupo.transacoes_agrupadas # <<>>

\* Sum over the results of a bucket, from the last one back, of the
\* allocated value of the group.
RECURSIVE TotalAlocado(_)
TotalAlocado(lista) ==
    IF Len(lista) = 0 THEN 0
    ELSE TotalAlocado(SubSeq(lista, 1, Len(lista) - 1))
         + lista[Len(lista)].grupo.valor_planilha

\* Sum over the results of a bucket of the value of the matched invoice.
RECURSIVE TotalDasNotas(_)
TotalDasNotas(lista) ==
    IF Len(lista) = 0 THEN 0
    ELSE TotalDasNotas(SubSeq(lista, 1, Len(lista) - 1))
         + NotaDe(lista[Len(lista)].grupo.numero_nfe).valor

\* C13: the Resumo of a finished run has, for the partition it was computed
\* from, the IDENTICA, DIVERGENTE_AGRUPADA, DIVERGENTE and NAO_ENCONTRADA
\* totals as sums of the groups' allocated values, the DESCONSIDERADA total
\* as the sum of the matched invoices' values,
\* total = identicas + agrupadas + divergentes + desconsideradas
\* - nao_encontradas, valor_a_pagar = total - desconsideradas and
\* diferenca_validacao = |valor_a_pagar - declared total|.
C13_ResumoAritmetica ==
    Resumido =>
        /\ resumo.identicas = TotalAlocado(resultados["IDENTICA"])
        /\ resumo.agrupadas = TotalAlocado(resultados["DIVERGENTE_AGRUPADA"])
        /\ resumo.divergentes = TotalAlocado(resultados["DIVERGENTE"])
        /\ resumo.nao_encontradas = TotalAlocado(resultados["NAO_ENCONTRADA"])
        /\ resumo.desconsideradas = TotalDasNotas(resultados["DESCONSIDERADA"])
        /\ resumo.total = resumo.identicas + resumo.agrupadas + resumo.divergentes
                            + resumo.desconsideradas - resumo.nao_encontradas
        /\ resumo.valor_a_pagar = resumo.total - resumo.desconsideradas
        /\ resumo.valor_do_boleto = valor_total_boleto
        /\ resumo.diferenca_validacao = Abs(resumo.valor_a_pagar - valor_total_boleto)

\* C13 witness: a finished run with a DESCONSIDERADA result whose invoice
\* value differs from the allocated value, a NAO_ENCONTRADA total above
\* zero and a validation difference above zero.
C13_Witness ==
    /\ Resumido
    /\ \E r \in Elementos(resultados["DESCONSIDERADA"]) :
          r.nfe[1].valor # r.grupo.valor_planilha
    /\ resumo.desconsideradas > 0
    /\ resumo.nao_encontradas > 0
    /\ resumo.total # resumo.valor_a_pagar
    /\ resumo.diferenca_validacao > 0

\* C14: the declared total returned by carregar_transacoes_da_planilha is
\* the sum of the billed values of the ingested transactions that are
\* neither cancellations nor reversals.
C14_TotalDeclaradoSemExcluidas ==
    pc # "carregar" =>
        valor_total_boleto = SomaBoleto(SelectSeq(transacoes, Valida))

\* The letter l (lower case) or its upper-case form.
MesmaLetra(c, l) ==
    \/ c = l
    \/ <<c, l>> \in {<<"A", "a">>, <<"C", "c">>, <<"D", "d">>, <<"E", "e">>,
                      <<"L", "l">>, <<"M", "m">>, <<"N", "n">>, <<"O", "o">>,
                      <<"R", "r">>, <<"S", "s">>, <<"T", "t">>}

\* The text holds the keyword at some position, in any letter case.
TemPalavra(t, palavra) ==
    \E i \in 1..Len(t) :
        /\ i + Len(palavra) - 1 <= Len(t)
        /\ \A k \in 1..Len(palavra) : MesmaLetra(t[i + k - 1], palavra[k])

\* The text with every character removed that is neither a digit nor a comma.
SoDigitosEVirgulas(t) == SelectSeq(t, LAMBDA c : c \in Digitos \/ c = ",")

\* The non-empty segments of s delimited by commas (or the ends of s).
Segmentos(s) ==
    {SubSeq(s, i, j) : <<i, j>> \in
        {ij \in (1..Len(s)) \X (1..Len(s)) :
            /\ ij[1] <= ij[2]
            /\ \A k \in ij[1]..ij[2] : s[k] # ","
            /\ (ij[1] = 1 \/ s[ij[1] - 1] = ",")
            /\ (ij[2] = Len(s) \/ s[ij[2] + 1] = ",")}}

\* C20: for a text that holds "cancelado", "cancelamento" or "estorno" in
\* any letter case extrair_numeros_nfe returns no number, eh_cancelamento
\* iff a cancellation keyword is there and eh_estorno iff "estorno" is
\* there; for every other text it returns both flags false and the
\* distinct non-empty comma-separated segments of the text stripped of
\* every character that is neither a digit nor a comma.
C20_Extracao ==
    pc = "extraido" =>
        LET canc == TemPalavra(texto, PalavraCancelado)
                    \/ TemPalavra(texto, PalavraCancelamento)
            est  == TemPalavra(texto, PalavraEstorno)
        IN IF canc \/ est
           THEN /\ extraido.numeros = {}
                /\ extraido.eh_cancelamento = canc
                /\ extraido.eh_estorno = est
           ELSE /\ ~extraido.eh_cancelamento
                /\ ~extraido.eh_estorno
                /\ extraido.numeros =
                      {NumeroDe(n) : n \in Segmentos(SoDigitosEVirgulas(texto))}

\* C20 witness: a text with letters from which two distinct numbers are
\* extracted.
C20_Witness ==
    /\ pc = "extraido"
    /\ Cardinality(extraido.numeros) = 2
    /\ \E k \in 1..Len(texto) : texto[k] = "F"

\* The spreadsheet without its cancellation rows, as ingested.
SemCanceladas ==
    CarregarLinhas(SelectSeq(planilha, LAMBDA row : ~row.cancelamento), PrimeiraLinha)

\* The Resumo of the run on the same inputs without the cancellation rows
\* (every set iterated in ascending order).
ResumoSemCanceladas ==
    LET c     == SemCanceladas
        ordem == [i \in 1..Len(c.transacoes) |-> sorted(c.transacoes[i].numeros_nfe)]
        res   == processar_confrontamento(criar_grupos_nfe(c.transacoes, ordem), nfes)
        ce    == calcular_cancelamentos_estornos(c.transacoes)
    IN gerar_resumo(res, c.total, ce.cancelamento, ce.estorno)

TextoCancelado == <<"C", "a", "n", "c", "e", "l", "a", "d", "o">>

\* C15: a transaction whose text holds a cancellation keyword has no
\* number and the cancellation flag, is a contributor of no group, and its
\* billed value is counted in Resumo.cancelamento only: every other field
\* of the Resumo is what it is for the same inputs without the
\* cancellation rows.
C15_CancelamentoSoNoTotalDeCancelamento ==
    /\ extrair_numeros_nfe(TextoCancelado)
          = [numeros |-> {}, eh_cancelamento |-> TRUE, eh_estorno |-> FALSE]
    /\ \A t \in Elementos(transacoes) :
          t.eh_cancelamento =>
              /\ t.numeros_nfe = {}
              /\ \A g \in Elementos(grupos) :
                    /\ t \notin Elementos(g.transacoes_individuais)
                    /\ t \notin Elementos(g.transacoes_agrupadas)
    /\ Resumido =>
          /\ resumo.cancelamento
                = SomaBoleto(SelectSeq(transacoes, LAMBDA t : t.eh_cancelamento))
          /\ \A campo \in DOMAIN resumo \ {"cancelamento"} :
                resumo[campo] = ResumoSemCanceladas[campo]

\* calcular_cancelamentos_estornos has returned.
Calculado == pc = "resumo" \/ Resumido

SomaCancelamentos == SomaBoleto(SelectSeq(transacoes, LAMBDA t : t.eh_cancelamento))

SomaEstornos == SomaBoleto(SelectSeq(transacoes, LAMBDA t : t.eh_estorno))

\* C16 (as claimed): calcular_cancelamentos_estornos returns the sum of the
\* billed values of the cancellation transactions and the negated sum of
\* the billed values of the reversal transactions.
C16_EstornoNegado ==
    Calculado => /\ cancelamento = SomaCancelamentos
                 /\ estorno = -SomaEstornos

\* C16 (amended): calcular_cancelamentos_estornos returns the sum of the
\* billed values of the cancellation transactions; the reversal total is
\* the negated sum of the billed values of the reversal transactions when
\* that sum is positive and the sum itself when it is zero or negative,
\* so it is never positive.
C16_EstornoNuncaPositivo ==
    Calculado => /\ cancelamento = SomaCancelamentos
                 /\ SomaEstornos > 0 => estorno = -SomaEstornos
                 /\ SomaEstornos <= 0 => estorno = SomaEstornos
                 /\ estorno <= 0

\* C16 witness: the reversal rows sum to a negative amount and the
\* reversal total is that amount.
C16_Witness ==
    /\ Calculado
    /\ SomaEstornos < 0
    /\ estorno = SomaEstornos

\* The spreadsheet row a transaction was built from.
LinhaDe(t) == planilha[t.linha - PrimeiraLinha + 1]

\* Number of digits of a valid tax id (CNPJ).
TamanhoCnpj == 14

\* C19: every transaction returned by carregar_transacoes_da_planilha has a
\* billed value above zero unless it is a cancellation or a reversal, and
\* station and company tax ids of exactly 14 digits (a row that is not so
\* is not in the returned list).
C19_TransacoesValidadas ==
    pc # "carregar" =>
        \A t \in Elementos(transacoes) :
            /\ (t.valor_boleto > 0 \/ t.eh_cancelamento \/ t.eh_estorno)
            /\ Len(cnpj_posto_de(LinhaDe(t))) = TamanhoCnpj
            /\ Len(cnpj_empresa_de(LinhaDe(t))) = TamanhoCnpj

\* processar_confrontamento was called and is over.
ConfrontamentoEncerrado == pc \in {"erro", "detectar", "cancelamentos", "resumo"} \/ Resumido

\* C17: when the classification of a group raises inside
\* processar_confrontamento, the batch is not aborted: every other group
\* of the map is classified and is in a bucket.
C17_FalhaNaoAbortaLote ==
    (ConfrontamentoEncerrado /\ processar_confrontamento_levanta(grupos, nfes)) =>
        \A g \in Elementos(grupos) :
            ~confrontar_grupo_levanta(g, nfes) =>
                \E r \in TodosResultados(resultados) :
                    r.grupo = g /\ r = confrontar_grupo(g, nfes)

\* C18: a group with no contributor (tipo_origem NENHUM) handed to
\* confrontar_grupo is rejected with a fault: the call raises and the group
\* is in none of the five buckets.
C18_SemContribuintesRejeitado ==
    \A g \in Elementos(grupos) :
        (tipo_origem(g) = "NENHUM" /\ pc # "confrontar") =>
            /\ pc = "erro"
            /\ \A r \in TodosResultados(resultados) : r.grupo # g

\* Positions in the invoice list of the invoices with a number.
PosicoesDaNota(numero) == {k \in 1..Len(nfes) : nfes[k].numero = numero}

\* The last invoice of the list with a number that is in the list.
UltimaNota(numero) ==
    nfes[CHOOSE k \in PosicoesDaNota(numero) : \A j \in PosicoesDaNota(numero) : j <= k]

\* C21: when several invoices of the list have the same number, every
\* group with that number is classified against the last of them in list
\* order: its result holds that invoice, the difference to that invoice's
\* value and the type that invoice alone would give.
C21_UltimaNotaVence ==
    Confrontado =>
        \A g \in Elementos(grupos) :
            PosicoesDaNota(g.numero_nfe) # {} =>
                \E r \in TodosResultados(resultados) :
                    /\ r.grupo = g
                    /\ r.nfe = <<UltimaNota(g.numero_nfe)>>
                    /\ r.diferenca = Abs(g.valor_planilha - UltimaNota(g.numero_nfe).valor)
                    /\ r.tipo = confrontar_grupo(g, <<UltimaNota(g.numero_nfe)>>).tipo

\* C21 witness: two invoices with the same number and different values;
\* the group is IDENTICA against the last one and would not be against the
\* first.
C21_Witness ==
    /\ Confrontado
    /\ \E r \in Elementos(resultados["IDENTICA"]) :
          /\ Cardinality(PosicoesDaNota(r.grupo.numero_nfe)) = 2
          /\ r.nfe = <<nfes[2]>>
          /\ nfes[1].valor # nfes[2].valor
          /\ confrontar_grupo(r.grupo, <<nfes[1]>>).tipo # "IDENTICA"

\* The contributor a group takes its descriptive fields from, read off the
\* transaction list: the first individual one, else the first combined one.
PrimeiroContribuinte(numero) ==
    IF IndividuaisDe(numero) # <<>> THEN IndividuaisDe(numero)[1]
    ELSE AgrupadasDe(numero)[1]

\* C22: the purchase date, station tax id, company tax id and deferral
\* flag of every group are those of its first individual contributor in
\* transaction order when it has one and of its first combined contributor
\* otherwise, and the deferred-day count of its result is computed from
\* that contributor's purchase date.
C22_CamposDoPrimeiroContribuinte ==
    /\ Agrupado =>
          \A g \in Elementos(grupos) :
              LET p == PrimeiroContribuinte(g.numero_nfe)
              IN /\ g.data_abastecimento = p.data_abastecimento
                 /\ g.cnpj_posto = p.cnpj_posto
                 /\ g.cnpj_empresa = p.cnpj_empresa
                 /\ g.postergado = p.postergado
    /\ Confrontado =>
          \A r \in TodosResultados(resultados) :
              r.dias_postergados =
                  Max(0, DATA_FECHAMENTO
                         - PrimeiroContribuinte(r.grupo.numero_nfe).data_abastecimento)

\* C22 witness: a group whose first combined contributor comes before its
\* first individual one and differs from it in all four fields; the group
\* has the individual contributor's fields.
C22_Witness ==
    /\ Confrontado
    /\ \E g \in Elementos(grupos) :
          /\ g.transacoes_individuais # <<>> /\ g.transacoes_agrupadas # <<>>
          /\ LET i == g.transacoes_individuais[1]
                 a == g.transacoes_agrupadas[1]
             IN /\ a.linha < i.linha
                /\ a.data_abastecimento # i.data_abastecimento
                /\ a.cnpj_posto # i.cnpj_posto
                /\ a.cnpj_empresa # i.cnpj_empresa
                /\ a.postergado # i.postergado
                /\ g.data_abastecimento = i.data_abastecimento
                /\ g.cnpj_posto = i.cnpj_posto
                /\ g.cnpj_empresa = i.cnpj_empresa
                /\ g.postergado = i.postergado

\* The invoice numbers referenced by a transaction that is neither a
\* cancellation nor a reversal.
NumerosReferidos ==
    UNION {t.numeros_nfe : t \in {u \in Elementos(transacoes) :
                                     ~u.eh_cancelamento /\ ~u.eh_estorno}}

\* C23: every group returned by criar_grupos_nfe has a contributing
\* transaction, so its origin kind is INDIVIDUAL, AGRUPADO or AMBOS and never
\* NENHUM, and the map has one group for exactly each invoice number
\* referenced by a transaction that is neither cancelled nor reversed.
C23_UmGrupoPorNumeroReferido ==
    Agrupado =>
        /\ \A g \in Elementos(grupos) :
              /\ Len(g.transacoes_individuais) + Len(g.transacoes_agrupadas) >= 1
              /\ tipo_origem(g) \in {"INDIVIDUAL", "AGRUPADO", "AMBOS"}
        /\ {grupos[k].numero_nfe : k \in 1..Len(grupos)} = NumerosReferidos
        /\ \A j, k \in 1..Len(grupos) :
              grupos[j].numero_nfe = grupos[k].numero_nfe => j = k

\* C23 witness: a batch with a cancelled row and a combined row, whose two
\* numbers each have a group, one of them of kind AGRUPADO.
C23_Witness ==
    /\ Agrupado
    /\ \E t \in Elementos(transacoes) : t.eh_cancelamento
    /\ \E t \in Elementos(transacoes) : Cardinality(t.numeros_nfe) = 2
    /\ Len(grupos) = 2
    /\ \E g \in Elementos(grupos) : tipo_origem(g) = "AGRUPADO"

\* A result with its divergence-group id blanked.
SemId(r) == [r EXCEPT !.grupo_divergencia_id = SemGrupoId]

\* One step of the last three stages, as far as the records are concerned:
\* nothing changes but grupo_divergencia_id of the DIVERGENTE_AGRUPADA
\* results, set in the detection step and kept afterwards.
SoEscreveOId ==
    /\ transacoes' = transacoes
    /\ nfes' = nfes
    /\ grupos' = grupos
    /\ \A t \in TiposResultado :
          /\ Len(resultados'[t]) = Len(resultados[t])
          /\ \A k \in 1..Len(resultados[t]) :
                LET antes  == resultados[t][k]
                    depois == resultados'[t][k]
                IN /\ SemId(depois) = SemId(antes)
                   /\ t # "DIVERGENTE_AGRUPADA" =>
                         depois.grupo_divergencia_id = SemGrupoId
                   /\ (t = "DIVERGENTE_AGRUPADA" /\ pc = "detectar") =>
                         /\ antes.grupo_divergencia_id = SemGrupoId
                         /\ depois.grupo_divergencia_id # SemGrupoId
                   /\ (t = "DIVERGENTE_AGRUPADA" /\ pc # "detectar") =>
                         depois.grupo_divergencia_id = antes.grupo_divergencia_id

\* C24: every step taken by detectar_grupos_divergentes_agrupadas,
\* calcular_cancelamentos_estornos and gerar_resumo leaves the transactions,
\* the invoices, the groups and every field of every result as they were,
\* except grupo_divergencia_id of the DIVERGENTE_AGRUPADA results, which goes
\* from unset to set in the detection step and is not written again; the
\* results of the other four buckets keep it unset.
C24_EstagiosFinaisSoEscrevemOId ==
    [][(pc \in {"detectar", "cancelamentos", "resumo"}) => SoEscreveOId]_vars

\* C24 witness: the summary has been produced for a batch with two
\* DIVERGENTE_AGRUPADA results, both numbered, and a result of another
\* bucket, not numbered.
C24_Witness ==
    /\ Resumido
    /\ Len(resultados["DIVERGENTE_AGRUPADA"]) = 2
    /\ \A r \in Elementos(resultados["DIVERGENTE_AGRUPADA"]) :
          r.grupo_divergencia_id # SemGrupoId
    /\ \E t \in TiposResultado \ {"DIVERGENTE_AGRUPADA"} :
          \E r \in Elementos(resultados[t]) : r.grupo_divergencia_id = SemGrupoId

\* The result of the group of an invoice number, with its bucket.
ResultadosDe(numero) ==
    {r \in TodosResultados(resultados) : r.grupo.numero_nfe = numero}

\* transacoes[k] is a combined row, the only row that references its
\* numbers, within the grace period, whose invoices are all in the index and
\* all differ from the allocated value by more than the tolerance.
LinhaAgrupadaUnicaDivergente(k) ==
    LET t == transacoes[k]
    IN /\ Valida(t)
       /\ eh_agrupamento(t)
       /\ \A j \in (1..Len(transacoes)) \ {k} :
             Valida(transacoes[j]) => transacoes[j].numeros_nfe \cap t.numeros_nfe = {}
       /\ DATA_FECHAMENTO - t.data_abastecimento <= PERIODO_MAXIMO_DIAS
       /\ t.numeros_nfe \subseteq NumerosNoIndice
       /\ \A n \in t.numeros_nfe : \A g \in GruposDe(n) :
             Abs(g.valor_planilha - NotaDe(n).valor) > TOLERANCIA_VALOR

\* C25: for a single combined row within the grace period whose referenced
\* invoices all exist and all differ from the allocated value by more than
\* the tolerance, the lexicographically smallest referenced number allocates
\* the row's full billed value, every other referenced number allocates 0,
\* every one of these groups is DIVERGENTE_AGRUPADA, and all these results
\* carry one and the same divergence-group id.
C25_LinhaAgrupadaDivergente ==
    Detectado =>
        \A k \in 1..Len(transacoes) :
            LinhaAgrupadaUnicaDivergente(k) =>
                LET t == transacoes[k]
                IN /\ \A n \in t.numeros_nfe :
                         /\ Cardinality(GruposDe(n)) = 1
                         /\ \A g \in GruposDe(n) :
                               g.valor_planilha =
                                   IF EhMinimoLexicografico(n, t.numeros_nfe)
                                   THEN t.valor_boleto ELSE 0
                         /\ ResultadosDe(n) # {}
                         /\ ResultadosDe(n) \subseteq
                               Elementos(resultados["DIVERGENTE_AGRUPADA"])
                   /\ \E id \in 1..Len(grupos) :
                         \A n \in t.numeros_nfe : \A r \in ResultadosDe(n) :
                             r.grupo_divergencia_id = id

\* C25 witness: the row "10, 2" billed 1.02 above the invoice value is such
\* a row; "10" carries its value, "2" carries 0 and both are numbered 1.
C25_Witness ==
    /\ Detectado
    /\ \E k \in 1..Len(transacoes) :
          /\ LinhaAgrupadaUnicaDivergente(k)
          /\ transacoes[k].numeros_nfe = {<<1, 0>>, <<2>>}
          /\ \E r \in ResultadosDe(<<1, 0>>) :
                r.grupo.valor_planilha = transacoes[k].valor_boleto
                /\ r.grupo_divergencia_id = 1
          /\ \E r \in ResultadosDe(<<2>>) :
                r.grupo.valor_planilha = 0 /\ r.grupo_divergencia_id = 1

\* C26: the deferred-day count of a group is the closing date minus its
\* purchase date in days when that is not negative and 0 otherwise; it is
\* never negative, and a group bought after the closing date has count 0
\* and is not DESCONSIDERADA.
C26_DiasNuncaNegativos ==
    Confrontado =>
        \A t \in TiposResultado : \A r \in Elementos(resultados[t]) :
            LET delta == DATA_FECHAMENTO - r.grupo.data_abastecimento
            IN /\ r.dias_postergados = IF delta >= 0 THEN delta ELSE 0
               /\ r.dias_postergados >= 0
               /\ delta < 0 => (r.dias_postergados = 0 /\ t # "DESCONSIDERADA")

\* C26 witness: a group bought 61 days after the closing date, whose invoice
\* is in the index, has count 0 and is IDENTICA.
C26_Witness ==
    /\ Confrontado
    /\ \E r \in Elementos(resultados["IDENTICA"]) :
          /\ r.grupo.data_abastecimento = DATA_FECHAMENTO + 61
          /\ r.dias_postergados = 0

\* C27 (as claimed): for every int, float or Decimal cell converter_valor
\* returns the value rounded half-up to two fractional digits, so the
\* returned value has at most two fractional digits.
C27_NumericoArredondado ==
    (pc = "convertido" /\ celula.tipo \in {"int", "float", "Decimal"}) =>
        /\ convertido = quantize(celula.milesimos)
        /\ convertido % 10 = 0

\* No transaction is flagged, every transaction references exactly one
\* invoice number, every group's invoice is in the index and every group is
\* within the grace period.
LoteReconciliavel ==
    /\ \A t \in Elementos(transacoes) :
          Valida(t) /\ Cardinality(t.numeros_nfe) = 1
    /\ \A g \in Elementos(grupos) :
          /\ g.numero_nfe \in NumerosNoIndice
          /\ DiasDoGrupo(g) <= PERIODO_MAXIMO_DIAS

\* C28: when no ingested transaction is a cancellation or a reversal, every
\* transaction references exactly one invoice number, every referenced
\* invoice is in the index and every group is within the grace period, the
\* payable amount equals the declared total, which is the sum of the
\* ingested billed values, and the validation delta is 0.
C28_Reconciliacao ==
    (Resumido /\ LoteReconciliavel) =>
        /\ resumo.valor_do_boleto = SomaBoleto(transacoes)
        /\ resumo.valor_a_pagar = resumo.valor_do_boleto
        /\ resumo.diferenca_validacao = 0

\* C28 witness: a reconcilable batch of two rows for two invoices, one
\* IDENTICA and one DIVERGENTE.
C28_Witness ==
    /\ Resumido
    /\ LoteReconciliavel
    /\ Len(resultados["IDENTICA"]) = 1
    /\ Len(resultados["DIVERGENTE"]) = 1
    /\ resumo.valor_a_pagar = transacoes[1].valor_boleto + transacoes[2].valor_boleto

\* The Resumo of the same run had its DESCONSIDERADA bucket been empty.
ResumoSemDesconsideradas ==
    gerar_resumo([resultados EXCEPT !["DESCONSIDERADA"] = <<>>],
                 valor_total_boleto, cancelamento, estorno)

\* C29 (as claimed): the payable amount does not depend on the
\* DESCONSIDERADA results: valor_a_pagar = identicas + agrupadas
\* + divergentes - nao_encontradas, and valor_a_pagar and
\* diferenca_validacao are those of the same partition with the
\* DESCONSIDERADA bucket emptied, whatever the invoice values in it.
C29_PagarNaoDependeDeDesconsideradas ==
    Resumido =>
        /\ resumo.valor_a_pagar = resumo.identicas + resumo.agrupadas
                                   + resumo.divergentes - resumo.nao_encontradas
        /\ resumo.valor_a_pagar = ResumoSemDesconsideradas.valor_a_pagar
        /\ resumo.diferenca_validacao = ResumoSemDesconsideradas.diferenca_validacao

\* The transaction list without its k-th element.
SemPosicao(lista, k) == SubSeq(lista, 1, k - 1) \o SubSeq(lista, k + 1, Len(lista))

\* C30 (as claimed): every ingested transaction is treated as at most one
\* of cancellation and reversal, also when its text holds both keywords:
\* it does not carry both flags, and leaving it out of the list changes at
\* most one of the cancellation total and the reversal total.
C30_NoMaximoUmDosTotais ==
    Calculado =>
        \A k \in 1..Len(transacoes) :
            LET sem == calcular_cancelamentos_estornos(SemPosicao(transacoes, k))
            IN /\ ~(transacoes[k].eh_cancelamento /\ transacoes[k].eh_estorno)
               /\ ~(sem.cancelamento # cancelamento /\ sem.estorno # estorno)

====
